---- MODULE Spec2Model ----
(***************************************************************************)
(* Pronunciation assessment core of the phoneme-service:                   *)
(*   - VowelAssessor._compare_vowel_sequences and the overall ratio of     *)
(*     VowelAssessor.assess (difflib.SequenceMatcher alignment),           *)
(*   - AlignmentService.extract_phonemes_with_timing (frame collapsing).   *)
(*                                                                         *)
(* IPA symbols are written in X-SAMPA, the ASCII transliteration of IPA:   *)
(*   "@" = schwa, "{" = ae (bat), "E" = epsilon (bet), "I" = small cap i.  *)
(* Python's None is the string "None".  Sequence positions are 0-based as  *)
(* in the source: At(s, i) is s[i].                                        *)
(*                                                                         *)
(* Floats are exact rationals: a ratio is [num, den]; a time is an integer *)
(* number of milliseconds after round(x, 3); a segment confidence is an    *)
(* integer number of thousandths, a frame confidence an integer number of  *)
(* ten-thousandths.  round() is round-half-to-even on the exact value.     *)
(*                                                                         *)
(* SequenceMatcher's autojunk heuristic only acts on sequences of 200 or   *)
(* more elements (difflib: "if self.autojunk and n >= 200"); the sequences *)
(* modelled here are shorter, so no element is junk or popular.            *)
(***************************************************************************)
EXTENDS Integers, Sequences, FiniteSets, TLC

VARIABLES
    \* ---- sequence aligner (vowel_assessor.py) ----
    expected,        \* expected symbol list
    actual,          \* actual symbol list
    overall_score,   \* assess: overall_matcher.ratio(), [num, den] or "None"
    vowel_score,     \* _compare_vowel_sequences: returned ratio or "None"
    vowel_errors,    \* _compare_vowel_sequences: returned error list
    focus_areas,     \* _identify_focus_areas: returned list
    pcA,             \* "overall" -> "vowel" -> "done" -> "ranked" ("idle" in other specs)
    \* ---- segment collapser (alignment_service.py) ----
    audio_len,       \* len(audio), in samples
    logits,          \* per frame [phoneme, prob]: decoded argmax and max prob
    frame_i,         \* loop index i
    current_phoneme, \* "None" before the first frame
    segment_start,   \* frame index s: segment_start = s * frame_duration
    segment_probs,   \* confidences of the open run
    phoneme_segments,\* emitted segments
    pcC,             \* "start" -> "loop" -> "done" | "ZeroDivisionError"
    \* ---- vowel extractor (vowel_assessor.py, _extract_vowels) ----
    phonemes,        \* the argument
    ex_i,            \* loop index i
    vowels,          \* the list being built
    vowel_pos,       \* for each element of vowels, the input positions it was read from
    pcE,             \* "loop" -> "done"
    \* ---- per-symbol scoring (alignment_service.py, get_phoneme_alignment) ----
    sc_expected,     \* expected_phonemes
    detected_phonemes,
    alignment_scores,
    sc_result,       \* the returned dict, "None" until the return
    pcS,             \* "loop" -> "done"
    \* ---- focus-area ranker called on its own (_identify_focus_areas) ----
    errors,          \* the error list passed in
    fa_i,            \* index of the next error to tally
    error_counts,    \* the tally, a dict in insertion order
    sorted_vowels,   \* the tally after sorted()
    fa_focus_areas,  \* the returned descriptions
    pcF,             \* "tally" -> "sort" -> "format" -> "done"
    \* ---- VowelAssessor.assess: one call and a second call that differs in
    \*      expected_phonemes and focus_vowels only ----
    call,            \* the arguments of the first call
    variant,         \* [expected_phonemes, focus_vowels] of the second call
    resultA,         \* result of the first call
    resultB,         \* result of the second call
    pcQ,             \* "first" -> "second" -> "done"
    \* ---- two invocations of assess whose steps interleave ----
    frames,          \* per invocation: its arguments and its local variables
    pcI,             \* per invocation: "extract" -> "align" -> "rank" -> "assemble" -> "done"
    last_step,       \* the invocation that took the latest step
    shared_tables,   \* the module-level tables both invocations read
    \* ---- phoneme service (phoneme-service/app/main.py) ----
    phoneme_extractor,  \* global: "None" or the instance
    alignment_service,  \* global: "None" or the instance
    vowel_assessor,     \* global: "None" or the instance
    models_loaded,      \* global flag
    pcL,             \* lifespan: "load_extractor" -> ... -> "serving" -> ... -> "stopped" | "failed"
    req,             \* the request being handled
    pcR,             \* handler: "idle" -> "guard" -> "extract" -> "align" -> "assess" -> "responded"
    phoneme_result,  \* handler local
    alignment_result,\* handler local
    response,        \* [status, body]
    used,            \* the service instances the handler has called
    \* ---- WebSocket /stream (pronunciation-api/app/main.py) ----
    ws_expected_text,\* websocket_stream local expected_text
    audio_buffer,    \* websocket_stream local
    full_audio,      \* websocket_stream local
    ws_assessment,   \* websocket_stream local assessment
    word_i,          \* position of the word_details loop
    pcW,             \* "receive" | "send_ready" | "send_no_text" | "send_pong" | "send_processing"
                     \* | "assess" | "send_results" | "send_error" | "closed"
    connected,       \* the client has not closed the socket
    received,        \* history: the messages received
    sent,            \* history: the messages sent, each with the index of the message answered
    submitted        \* history: the assessments requested

alignVars == <<expected, actual, overall_score, vowel_score, vowel_errors,
               focus_areas, pcA>>
collapseVars == <<audio_len, logits, frame_i, current_phoneme, segment_start,
                  segment_probs, phoneme_segments, pcC>>
extractVars == <<phonemes, ex_i, vowels, vowel_pos, pcE>>
scoreVars == <<sc_expected, detected_phonemes, alignment_scores, sc_result, pcS>>
focusVars == <<errors, fa_i, error_counts, sorted_vowels, fa_focus_areas, pcF>>
assessVars == <<call, variant, resultA, resultB, pcQ>>
restVars == <<extractVars, scoreVars, focusVars, assessVars>>
coreVars == <<alignVars, collapseVars, restVars>>
concVars == <<frames, pcI, last_step, shared_tables>>
svcVars == <<phoneme_extractor, alignment_service, vowel_assessor, models_loaded,
             pcL, req, pcR, phoneme_result, alignment_result, response, used>>
streamVars == <<ws_expected_text, audio_buffer, full_audio, ws_assessment, word_i, pcW,
                connected, received, sent, submitted>>
serviceVars == <<concVars, svcVars, streamVars>>
vars == <<coreVars, serviceVars>>

None == "None"

\* ------------------------------------------------------------------ bounds
MaxLen == 3
MaxFrames == 4
MaxPhonemes == 4
MaxErrors == 4
MaxScoreLen == 2
MaxActual == 3

\* ----------------------------------------------------------------- helpers
At(s, i) == s[i + 1]

Min(m, n) == IF m <= n THEN m ELSE n

SeqsUpTo(S, n) == UNION {[1..k -> S] : k \in 0..n}

RECURSIVE SumSeq(_)
SumSeq(s) == IF s = <<>> THEN 0 ELSE Head(s) + SumSeq(Tail(s))

RECURSIVE Flatten(_)
Flatten(ss) == IF ss = <<>> THEN <<>> ELSE Head(ss) \o Flatten(Tail(ss))

\* ------------------------------------------------------- the vowel table
IPA_VOWELS ==
    ("I"  :> [name |-> "short i",  example |-> "bit",    difficulty |-> "high"]) @@
    ("E"  :> [name |-> "short e",  example |-> "bet",    difficulty |-> "medium"]) @@
    ("{"  :> [name |-> "short a",  example |-> "bat",    difficulty |-> "high"]) @@
    ("A"  :> [name |-> "short o",  example |-> "bot",    difficulty |-> "medium"]) @@
    ("V"  :> [name |-> "short u",  example |-> "but",    difficulty |-> "high"]) @@
    ("U"  :> [name |-> "short oo", example |-> "book",   difficulty |-> "high"]) @@
    ("@"  :> [name |-> "schwa",    example |-> "about",  difficulty |-> "high"]) @@
    ("i"  :> [name |-> "long ee",  example |-> "beat",   difficulty |-> "low"]) @@
    ("i:" :> [name |-> "long ee",  example |-> "beat",   difficulty |-> "low"]) @@
    ("u"  :> [name |-> "long oo",  example |-> "boot",   difficulty |-> "low"]) @@
    ("u:" :> [name |-> "long oo",  example |-> "boot",   difficulty |-> "low"]) @@
    ("O"  :> [name |-> "aw",       example |-> "bought", difficulty |-> "medium"]) @@
    ("O:" :> [name |-> "aw",       example |-> "bought", difficulty |-> "medium"]) @@
    ("3"  :> [name |-> "ur",       example |-> "bird",   difficulty |-> "high"]) @@
    ("3:" :> [name |-> "ur",       example |-> "bird",   difficulty |-> "high"]) @@
    ("A:" :> [name |-> "ah",       example |-> "father", difficulty |-> "medium"]) @@
    ("eI" :> [name |-> "long a",   example |-> "bait",   difficulty |-> "medium"]) @@
    ("oU" :> [name |-> "long o",   example |-> "boat",   difficulty |-> "medium"]) @@
    ("aI" :> [name |-> "long i",   example |-> "bite",   difficulty |-> "medium"]) @@
    ("aU" :> [name |-> "ow",       example |-> "bout",   difficulty |-> "medium"]) @@
    ("OI" :> [name |-> "oy",       example |-> "boy",    difficulty |-> "low"]) @@
    ("I@" :> [name |-> "ear",      example |-> "beer",   difficulty |-> "high"]) @@
    ("e@" :> [name |-> "air",      example |-> "bear",   difficulty |-> "high"]) @@
    ("U@" :> [name |-> "oor",      example |-> "poor",   difficulty |-> "high"])

\* IPA_VOWELS.get(v, {}).get('name', v)
VowelName(v) == IF v \in DOMAIN IPA_VOWELS THEN IPA_VOWELS[v].name ELSE v

\* The symbols the aligner is exercised on: schwa, ae, epsilon.
AlignSymbols == {"@", "{", "E"}

\* ------------------------------------------- difflib.SequenceMatcher(None, a, b)
\* Length of the common run a[i:i+k] = b[j:j+k] inside a[:ahi], b[:bhi]: the
\* value j2len reaches at the run's last element in find_longest_match.
RECURSIVE RunLen(_, _, _, _, _, _)
RunLen(a, b, i, j, ahi, bhi) ==
    IF i < ahi /\ j < bhi /\ At(a, i) = At(b, j)
    THEN 1 + RunLen(a, b, i + 1, j + 1, ahi, bhi)
    ELSE 0

\* find_longest_match: the longest block; of the longest, the one starting
\* earliest in a; of those, the one starting earliest in b.  (alo, blo, 0)
\* when nothing matches.
FindLongestMatch(a, b, alo, ahi, blo, bhi) ==
    LET cands == {c \in (alo..(ahi - 1)) \X (blo..(bhi - 1)) :
                     RunLen(a, b, c[1], c[2], ahi, bhi) > 0}
        size(c) == RunLen(a, b, c[1], c[2], ahi, bhi)
    IN IF cands = {} THEN [i |-> alo, j |-> blo, size |-> 0]
       ELSE LET best == CHOOSE c \in cands :
                           \A d \in cands :
                               \/ size(c) > size(d)
                               \/ size(c) = size(d) /\ c[1] < d[1]
                               \/ size(c) = size(d) /\ c[1] = d[1] /\ c[2] <= d[2]
            IN [i |-> best[1], j |-> best[2], size |-> size(best)]

\* get_matching_blocks, the queue loop followed by the sort: the blocks left
\* of the longest match, the match, the blocks right of it.
RECURSIVE MatchingBlocksIn(_, _, _, _, _, _)
MatchingBlocksIn(a, b, alo, ahi, blo, bhi) ==
    LET m == FindLongestMatch(a, b, alo, ahi, blo, bhi)
    IN IF m.size = 0 THEN <<>>
       ELSE (IF alo < m.i /\ blo < m.j
             THEN MatchingBlocksIn(a, b, alo, m.i, blo, m.j) ELSE <<>>)
            \o <<m>> \o
            (IF m.i + m.size < ahi /\ m.j + m.size < bhi
             THEN MatchingBlocksIn(a, b, m.i + m.size, ahi, m.j + m.size, bhi)
             ELSE <<>>)

\* get_matching_blocks, the pass that merges adjacent blocks; cur is (i1, j1, k1).
RECURSIVE CollapseAdjacent(_, _)
CollapseAdjacent(blocks, cur) ==
    IF blocks = <<>>
    THEN IF cur.size > 0 THEN <<cur>> ELSE <<>>
    ELSE LET nxt == Head(blocks)
         IN IF cur.i + cur.size = nxt.i /\ cur.j + cur.size = nxt.j
            THEN CollapseAdjacent(Tail(blocks), [cur EXCEPT !.size = cur.size + nxt.size])
            ELSE (IF cur.size > 0 THEN <<cur>> ELSE <<>>)
                 \o CollapseAdjacent(Tail(blocks), nxt)

\* get_matching_blocks: the merged blocks and the sentinel (la, lb, 0).
GetMatchingBlocks(a, b) ==
    CollapseAdjacent(MatchingBlocksIn(a, b, 0, Len(a), 0, Len(b)),
                     [i |-> 0, j |-> 0, size |-> 0])
    \o <<[i |-> Len(a), j |-> Len(b), size |-> 0]>>

\* get_opcodes: for each block, the gap before it (replace, delete or insert)
\* and then the block itself (equal) when it is not empty.
RECURSIVE OpcodesFrom(_, _, _)
OpcodesFrom(blocks, i, j) ==
    IF blocks = <<>> THEN <<>>
    ELSE LET m == Head(blocks)
             tag == IF i < m.i /\ j < m.j THEN "replace"
                    ELSE IF i < m.i THEN "delete"
                    ELSE IF j < m.j THEN "insert"
                    ELSE ""
             gap == IF tag # ""
                    THEN <<[tag |-> tag, i1 |-> i, i2 |-> m.i, j1 |-> j, j2 |-> m.j]>>
                    ELSE <<>>
             eq  == IF m.size > 0
                    THEN <<[tag |-> "equal", i1 |-> m.i, i2 |-> m.i + m.size,
                            j1 |-> m.j, j2 |-> m.j + m.size]>>
                    ELSE <<>>
         IN gap \o eq \o OpcodesFrom(Tail(blocks), m.i + m.size, m.j + m.size)

GetOpcodes(a, b) == OpcodesFrom(GetMatchingBlocks(a, b), 0, 0)

\* ratio(): matches = sum of the block sizes.
Matches(a, b) == SumSeq([k \in DOMAIN GetMatchingBlocks(a, b) |-> GetMatchingBlocks(a, b)[k].size])

\* _calculate_ratio: 2.0 * matches / length, and 1.0 when length is 0.
CalculateRatio(matches, length) ==
    IF length > 0 THEN [num |-> 2 * matches, den |-> length]
    ELSE [num |-> 1, den |-> 1]

RatioHalved(a, b) == CalculateRatio(Matches(a, b), 2 * (Len(a) + Len(b)))

\* SequenceMatcher(None, a, b).ratio()
Ratio(a, b) == CalculateRatio(Matches(a, b), Len(a) + Len(b))

\* ------------------------------------ VowelAssessor._compare_vowel_sequences
\* tag == 'replace': one substitution per pair of zip(expected[i1:i2], actual[j1:j2]).
ReplaceErrors(exp, act, op) ==
    [k \in 1..Min(op.i2 - op.i1, op.j2 - op.j1) |->
        [position      |-> op.i1 + (k - 1),
         expected      |-> At(exp, op.i1 + (k - 1)),
         actual        |-> At(act, op.j1 + (k - 1)),
         error_type    |-> "substitution",
         expected_name |-> VowelName(At(exp, op.i1 + (k - 1))),
         actual_name   |-> VowelName(At(act, op.j1 + (k - 1)))]]

DeleteErrorsAtStart(exp, op) ==
    [k \in 1..(op.i2 - op.i1) |->
        [position      |-> op.i1,
         expected      |-> At(exp, op.i1 + (k - 1)),
         actual        |-> None,
         error_type    |-> "missing",
         expected_name |-> VowelName(At(exp, op.i1 + (k - 1)))]]

\* tag == 'delete': one 'missing' per element of expected[i1:i2].
DeleteErrors(exp, op) ==
    [k \in 1..(op.i2 - op.i1) |->
        [position      |-> op.i1 + (k - 1),
         expected      |-> At(exp, op.i1 + (k - 1)),
         actual        |-> None,
         error_type    |-> "missing",
         expected_name |-> VowelName(At(exp, op.i1 + (k - 1)))]]

\* tag == 'insert': one 'insertion' per element of actual[j1:j2], all at i1.
InsertErrorsAtActual(act, op) ==
    [k \in 1..(op.j2 - op.j1) |->
        [position    |-> op.j1 + (k - 1),
         expected    |-> None,
         actual      |-> At(act, op.j1 + (k - 1)),
         error_type  |-> "insertion",
         actual_name |-> VowelName(At(act, op.j1 + (k - 1)))]]

InsertErrors(act, op) ==
    [k \in 1..(op.j2 - op.j1) |->
        [position    |-> op.i1,
         expected    |-> None,
         actual      |-> At(act, op.j1 + (k - 1)),
         error_type  |-> "insertion",
         actual_name |-> VowelName(At(act, op.j1 + (k - 1)))]]

\* The body of the loop over get_opcodes(): 'equal' adds nothing.
OpErrors(exp, act, op) ==
    IF op.tag = "replace" THEN ReplaceErrors(exp, act, op)
    ELSE IF op.tag = "delete" THEN DeleteErrors(exp, op)
    ELSE IF op.tag = "insert" THEN InsertErrors(act, op)
    ELSE <<>>

\* The alignment of a non-empty expected list: (ratio, errors).
AlignErrors(exp, act) ==
    [ratio  |-> Ratio(exp, act),
     errors |-> Flatten([k \in DOMAIN GetOpcodes(exp, act) |->
                            OpErrors(exp, act, GetOpcodes(exp, act)[k])])]

CompareWithoutEarlyReturn(exp, act) == AlignErrors(exp, act)

CompareEarlyReturnBothEmpty(exp, act) ==
    IF exp = <<>> /\ act = <<>>
    THEN [ratio |-> [num |-> 1, den |-> 1], errors |-> <<>>]
    ELSE AlignErrors(exp, act)

\* _compare_vowel_sequences: "if not expected: return 1.0, []", else the alignment.
CompareVowelSequences(exp, act) ==
    IF exp = <<>>
    THEN [ratio |-> [num |-> 1, den |-> 1], errors |-> <<>>]
    ELSE AlignErrors(exp, act)

\* ------------------------------------------------------ aligner: the machine
ExtractIdle ==
    /\ phonemes = <<>>
    /\ ex_i = 0
    /\ vowels = <<>>
    /\ vowel_pos = <<>>
    /\ pcE = "idle"

ScoreIdle ==
    /\ sc_expected = <<>>
    /\ detected_phonemes = <<>>
    /\ alignment_scores = <<>>
    /\ sc_result = None
    /\ pcS = "idle"

FocusIdle ==
    /\ errors = <<>>
    /\ fa_i = 0
    /\ error_counts = <<>>
    /\ sorted_vowels = <<>>
    /\ fa_focus_areas = <<>>
    /\ pcF = "idle"

AssessIdle ==
    /\ call = None
    /\ variant = None
    /\ resultA = None
    /\ resultB = None
    /\ pcQ = "idle"

ConcIdle ==
    /\ frames = <<>>
    /\ pcI = <<>>
    /\ last_step = 0
    /\ shared_tables = <<>>

SvcIdle ==
    /\ phoneme_extractor = None
    /\ alignment_service = None
    /\ vowel_assessor = None
    /\ models_loaded = FALSE
    /\ pcL = "idle"
    /\ req = None
    /\ pcR = "idle"
    /\ phoneme_result = None
    /\ alignment_result = None
    /\ response = None
    /\ used = {}

StreamIdle ==
    /\ ws_expected_text = ""
    /\ audio_buffer = <<>>
    /\ full_audio = ""
    /\ ws_assessment = None
    /\ word_i = 0
    /\ pcW = "idle"
    /\ connected = FALSE
    /\ received = <<>>
    /\ sent = <<>>
    /\ submitted = <<>>

ServiceIdle == ConcIdle /\ SvcIdle /\ StreamIdle

RestIdle == ExtractIdle /\ ScoreIdle /\ FocusIdle /\ AssessIdle /\ ServiceIdle

CollapseIdle ==
    /\ audio_len = 0
    /\ logits = <<>>
    /\ frame_i = 0
    /\ current_phoneme = None
    /\ segment_start = 0
    /\ segment_probs = <<>>
    /\ phoneme_segments = <<>>
    /\ pcC = "idle"

InitAlign ==
    /\ expected \in SeqsUpTo(AlignSymbols, MaxLen)
    /\ actual \in SeqsUpTo(AlignSymbols, MaxLen)
    /\ overall_score = None
    /\ vowel_score = None
    /\ vowel_errors = <<>>
    /\ focus_areas = <<>>
    /\ pcA = "overall"
    /\ CollapseIdle
    /\ RestIdle

\* assess: overall_matcher = SequenceMatcher(None, expected_list,
\* actual_phoneme_list); overall_score = overall_matcher.ratio()
AssessOverall ==
    /\ pcA = "overall"
    /\ overall_score' = Ratio(expected, actual)
    /\ pcA' = "vowel"
    /\ UNCHANGED <<expected, actual, vowel_score, vowel_errors, focus_areas,
                   collapseVars, restVars, serviceVars>>

\* assess: vowel_score, vowel_errors = self._compare_vowel_sequences(...)
AssessCompareVowels ==
    /\ pcA = "vowel"
    /\ LET r == CompareVowelSequences(expected, actual)
       IN /\ vowel_score' = r.ratio
          /\ vowel_errors' = r.errors
    /\ pcA' = "done"
    /\ UNCHANGED <<expected, actual, overall_score, focus_areas, collapseVars,
                   restVars, serviceVars>>

\* --------------------------- AlignmentService.extract_phonemes_with_timing
\* self.sample_rate
sample_rate == 16000

\* What processor.decode([pid]).strip() yields per frame: two phonemes and
\* the three tokens the collapser discards.
PhonemeTokens == {"p", "t", "<pad>", "|", ""}

\* The stream of the specification's worked example.
ScenarioFrames == <<"p", "p", "t", "t", "t", "<pad>">>

\* Per-frame confidence, a float with more than 3 decimals, in
\* ten-thousandths: the same on every frame (0.9), a different one on every
\* frame (0.1, 0.2, ...), or values that are no multiple of 0.001 (0.9996,
\* 0.9997, ...).
ProbProfiles == {"uniform", "ramp", "fine"}

FrameProb(profile, i) ==
    IF profile = "uniform" THEN 9000
    ELSE IF profile = "ramp" THEN 1000 * (i + 1)
    ELSE 9996 + i

\* len(audio): no audio; 411 samples (25.6875 ms); 9600 samples (0.6 s).
AudioLens == {0, 411, 9600}

LogitStreams ==
    {[k \in 1..Len(syms) |-> [phoneme |-> syms[k], prob |-> FrameProb(pr, k - 1)]] :
        syms \in SeqsUpTo(PhonemeTokens, MaxFrames) \cup {ScenarioFrames},
        pr \in ProbProfiles}

\* round(p / q) for p >= 0, q > 0: Python's round-half-to-even.
RoundDiv(p, q) ==
    LET f == p \div q
        r == p % q
    IN IF 2 * r < q THEN f
       ELSE IF 2 * r > q THEN f + 1
       ELSE IF f % 2 = 0 THEN f ELSE f + 1

\* num_frames = logits.shape[1]
num_frames == Len(logits)

FrameTimeFixedStepMs(i) == i * 20

\* round(i * frame_duration, 3) in ms, with audio_duration = len(audio) /
\* sample_rate and frame_duration = audio_duration / num_frames.
FrameTimeMs(i) == RoundDiv(i * audio_len * 1000, sample_rate * num_frames)

\* round(audio_duration, 3) in ms
DurationMs == RoundDiv(audio_len * 1000, sample_rate)

\* round(float(np.mean(segment_probs)), 3) in thousandths, the frame
\* confidences being in ten-thousandths
MeanConfidence(probs) == RoundDiv(SumSeq(probs), 10 * Len(probs))

NewRunProbsCarried(previous, prob) == Append(previous, prob)

\* "segment_probs = [prob]": the run that starts at this frame
NewRunProbs(previous, prob) == <<prob>>

EmitsSegmentPad(cp) == cp # None /\ cp # "" /\ cp \notin {"", "|"}

\* "current_phoneme and current_phoneme not in ['', '<pad>', '|']"
EmitsSegment(cp) == cp # None /\ cp # "" /\ cp \notin {"", "<pad>", "|"}

ClosedSegmentEndAtDuration(i) ==
    [phoneme    |-> current_phoneme,
     start      |-> FrameTimeMs(segment_start),
     end        |-> DurationMs,
     confidence |-> MeanConfidence(segment_probs)]

\* The segment appended when frame i starts another phoneme.
ClosedSegment(i) ==
    [phoneme    |-> current_phoneme,
     start      |-> FrameTimeMs(segment_start),
     end        |-> FrameTimeMs(i),
     confidence |-> MeanConfidence(segment_probs)]

\* The segment appended after the loop.
LastSegment ==
    [phoneme    |-> current_phoneme,
     start      |-> FrameTimeMs(segment_start),
     end        |-> DurationMs,
     confidence |-> MeanConfidence(segment_probs)]

AlignIdle ==
    /\ expected = <<>>
    /\ actual = <<>>
    /\ overall_score = None
    /\ vowel_score = None
    /\ vowel_errors = <<>>
    /\ focus_areas = <<>>
    /\ pcA = "idle"

InitCollapse ==
    /\ audio_len \in AudioLens
    /\ logits \in LogitStreams
    /\ frame_i = 0
    /\ current_phoneme = None
    /\ segment_start = 0
    /\ segment_probs = <<>>
    /\ phoneme_segments = <<>>
    /\ pcC = "start"
    /\ AlignIdle
    /\ RestIdle

\* frame_duration = audio_duration / num_frames raises ZeroDivisionError when
\* the model returned no frame; otherwise the loop variables are set up.
CollapseStart ==
    /\ pcC = "start"
    /\ pcC' = IF num_frames = 0 THEN "ZeroDivisionError" ELSE "loop"
    /\ frame_i' = 0
    /\ current_phoneme' = None
    /\ segment_start' = 0
    /\ segment_probs' = <<>>
    /\ phoneme_segments' = <<>>
    /\ UNCHANGED <<audio_len, logits, alignVars, restVars, serviceVars>>

\* One iteration of "for i, (pid, prob) in enumerate(zip(ids, probs_np))".
CollapseFrame ==
    /\ pcC = "loop"
    /\ frame_i < num_frames
    /\ LET phoneme == At(logits, frame_i).phoneme
           prob    == At(logits, frame_i).prob
       IN IF phoneme # current_phoneme
          THEN /\ phoneme_segments' =
                     IF EmitsSegment(current_phoneme)
                     THEN Append(phoneme_segments, ClosedSegment(frame_i))
                     ELSE phoneme_segments
               /\ current_phoneme' = phoneme
               /\ segment_start' = frame_i
               /\ segment_probs' = NewRunProbs(segment_probs, prob)
          ELSE /\ segment_probs' = Append(segment_probs, prob)
               /\ UNCHANGED <<phoneme_segments, current_phoneme, segment_start>>
    /\ frame_i' = frame_i + 1
    /\ UNCHANGED <<pcC, audio_len, logits, alignVars, restVars, serviceVars>>

\* "Don't forget last segment", and the return.
CollapseFinish ==
    /\ pcC = "loop"
    /\ frame_i = num_frames
    /\ phoneme_segments' =
           IF EmitsSegment(current_phoneme)
           THEN Append(phoneme_segments, LastSegment)
           ELSE phoneme_segments
    /\ pcC' = "done"
    /\ UNCHANGED <<audio_len, logits, frame_i, current_phoneme, segment_start,
                   segment_probs, alignVars, restVars, serviceVars>>

NextCollapse == CollapseStart \/ CollapseFrame \/ CollapseFinish

SpecCollapse == InitCollapse /\ [][NextCollapse]_vars

\* ======================================================================
\* Claims about the sequence aligner (checked under SpecAlign)
\* ======================================================================
RatioIs(r, n) == r.num = n * r.den

Opcodes == GetOpcodes(expected, actual)

ReplaceOps == {Opcodes[k] : k \in {k \in DOMAIN Opcodes : Opcodes[k].tag = "replace"}}

EqualOps == {Opcodes[k] : k \in {k \in DOMAIN Opcodes : Opcodes[k].tag = "equal"}}

ErrorsOf(types) == {k \in DOMAIN vowel_errors : vowel_errors[k].error_type \in types}

\* Expected indices accounted for: those of the equal blocks and the positions
\* of the substitution and 'missing' errors.
ExpectedAccounted ==
    UNION {op.i1..(op.i2 - 1) : op \in EqualOps}
    \cup {vowel_errors[k].position : k \in ErrorsOf({"substitution", "missing"})}

\* Number of actual elements accounted for: the matched ones and one per
\* substitution or insertion error.
ActualAccounted ==
    Matches(expected, actual) + Cardinality(ErrorsOf({"substitution", "insertion"}))

\* C1 (op coverage): once _compare_vowel_sequences has returned for a
\* non-empty expected list, the equal blocks and the substitution/'missing'
\* errors account for every index of expected, and the equal blocks and the
\* substitution/insertion errors account for every element of actual.  (The
\* empty expected list is the early return of C5, which reports nothing.)
C1_OpCoverage ==
    (pcA = "done" /\ expected # <<>>) =>
        /\ \A i \in 0..(Len(expected) - 1) : i \in ExpectedAccounted
        /\ ActualAccounted >= Len(actual)

\* C2 (replace gap of unequal lengths): for every 'replace' opcode there is a
\* substitution for each paired index, a 'missing' error for each expected
\* symbol beyond the pairs and an insertion for each actual symbol beyond
\* the pairs.
C2_ReplaceRemainder ==
    pcA = "done" =>
        \A op \in ReplaceOps :
            LET n == Min(op.i2 - op.i1, op.j2 - op.j1)
            IN /\ \A k \in 0..(n - 1) :
                      \E e \in ErrorsOf({"substitution"}) :
                          /\ vowel_errors[e].position = op.i1 + k
                          /\ vowel_errors[e].expected = At(expected, op.i1 + k)
                          /\ vowel_errors[e].actual = At(actual, op.j1 + k)
               /\ \A i \in (op.i1 + n)..(op.i2 - 1) :
                      \E e \in ErrorsOf({"missing"}) :
                          /\ vowel_errors[e].position = i
                          /\ vowel_errors[e].expected = At(expected, i)
               /\ \A j \in (op.j1 + n)..(op.j2 - 1) :
                      \E e \in ErrorsOf({"insertion"}) :
                          /\ vowel_errors[e].position \in op.i1..op.i2
                          /\ vowel_errors[e].actual = At(actual, j)

RatioInUnit(r) == r.den > 0 /\ 0 <= r.num /\ r.num <= r.den

\* C3 (similarity bounds): every ratio the aligner returns, the overall
\* ratio of assess and the ratio of _compare_vowel_sequences, lies in [0, 1]
\* and is 1 when expected = actual, the two empty lists included.
C3_SimilarityBounds ==
    /\ pcA \in {"vowel", "done"} =>
           /\ RatioInUnit(overall_score)
           /\ expected = actual => RatioIs(overall_score, 1)
    /\ pcA = "done" =>
           /\ RatioInUnit(vowel_score)
           /\ expected = actual => RatioIs(vowel_score, 1)

C3_Witness ==
    /\ pcA = "done"
    /\ expected = actual
    /\ Len(expected) >= 2
    /\ RatioIs(overall_score, 1)
    /\ RatioIs(vowel_score, 1)

\* C4 as claimed: with an empty expected list and a non-empty actual list
\* the similarity is 0, for the overall comparison of assess and for
\* _compare_vowel_sequences.
C4_EmptyExpectedIsZero ==
    (pcA = "done" /\ expected = <<>> /\ actual # <<>>) =>
        /\ RatioIs(overall_score, 0)
        /\ RatioIs(vowel_score, 0)

\* C4 as amended: with an empty expected list and a non-empty actual list
\* the overall comparison of assess gives 0, and _compare_vowel_sequences
\* gives 1 (its early return).
C4_EmptyExpectedOverallZeroVowelOne ==
    (pcA = "done" /\ expected = <<>> /\ actual # <<>>) =>
        /\ RatioIs(overall_score, 0)
        /\ RatioIs(vowel_score, 1)

C4_Witness ==
    /\ pcA = "done"
    /\ expected = <<>>
    /\ actual # <<>>
    /\ overall_score = [num |-> 0, den |-> Len(actual)]

\* C5 (empty expected): _compare_vowel_sequences returns ratio 1.0 and no
\* error for an empty expected list, whatever actual is.
C5_EmptyExpectedNoOps ==
    (pcA = "done" /\ expected = <<>>) =>
        /\ vowel_score = [num |-> 1, den |-> 1]
        /\ vowel_errors = <<>>

C5_Witness ==
    /\ pcA = "done"
    /\ expected = <<>>
    /\ Len(actual) >= 2
    /\ vowel_errors = <<>>

\* C6 (empty actual): for a non-empty expected list and an empty actual
\* list the ratio is 0 and the errors are exactly one 'missing' per expected
\* index, in index order.
C6_EmptyActualAllMissing ==
    (pcA = "done" /\ actual = <<>> /\ expected # <<>>) =>
        /\ RatioIs(vowel_score, 0)
        /\ Len(vowel_errors) = Len(expected)
        /\ \A k \in 1..Len(expected) :
               /\ vowel_errors[k].error_type = "missing"
               /\ vowel_errors[k].position = k - 1
               /\ vowel_errors[k].expected = expected[k]
               /\ vowel_errors[k].actual = None

C6_Witness ==
    /\ pcA = "done"
    /\ actual = <<>>
    /\ Len(expected) >= 2
    /\ Len(vowel_errors) = Len(expected)

\* ======================================================================
\* Claims about the segment collapser (checked under SpecCollapse)
\* ======================================================================
FrameSymbols == [k \in DOMAIN logits |-> logits[k].phoneme]

Scenario ==
    /\ FrameSymbols = ScenarioFrames
    /\ audio_len = 9600
    /\ \A k \in DOMAIN logits : logits[k].prob = 9000

Returned == pcC = "done"

\* C7 as claimed: the worked example yields p from 0.0 to 0.2 and t from
\* 0.2 to 0.6, both with confidence 0.9, and nothing for the trailing pad.
C7_ScenarioEndsAtDuration ==
    (Scenario /\ Returned) =>
        phoneme_segments =
            << [phoneme |-> "p", start |-> 0, end |-> 200, confidence |-> 900],
               [phoneme |-> "t", start |-> 200, end |-> 600, confidence |-> 900] >>

\* C7 as amended: the worked example yields p from 0.0 to 0.2 and t from
\* 0.2 to 0.5 (the time of the pad frame that closes the run), both with
\* confidence 0.9, and nothing for the trailing pad.
C7_ScenarioSegments ==
    (Scenario /\ Returned) =>
        phoneme_segments =
            << [phoneme |-> "p", start |-> 0, end |-> 200, confidence |-> 900],
               [phoneme |-> "t", start |-> 200, end |-> 500, confidence |-> 900] >>

C7_Witness == Scenario /\ Returned /\ Len(phoneme_segments) = 2

\* The symbols of the maximal runs of equal consecutive elements of s.
RECURSIVE RunSymbols(_)
RunSymbols(s) ==
    IF s = <<>> THEN <<>>
    ELSE IF Len(s) >= 2 /\ s[1] = s[2] THEN RunSymbols(Tail(s))
    ELSE <<Head(s)>> \o RunSymbols(Tail(s))

NonBlankRuns(s) == SelectSeq(RunSymbols(s), LAMBDA x : x \notin {"", "<pad>", "|"})

\* C8 (one segment per non-blank run): when the collapser has ended, the
\* emitted segments carry, in order, the symbols of the maximal runs of
\* equal consecutive frames that are not '', '<pad>' or '|'.
C8_SegmentsAreNonBlankRuns ==
    pcC \in {"done", "ZeroDivisionError"} =>
        [k \in DOMAIN phoneme_segments |-> phoneme_segments[k].phoneme]
            = NonBlankRuns(FrameSymbols)

C8_Witness ==
    /\ Returned
    /\ Len(phoneme_segments) = 2
    /\ \E k \in DOMAIN logits : logits[k].phoneme = "|"
    /\ \E k \in DOMAIN logits : logits[k].phoneme = ""
    /\ Len(RunSymbols(FrameSymbols)) = 4

SegmentsOrdered ==
    /\ \A k \in DOMAIN phoneme_segments :
           /\ 0 <= phoneme_segments[k].start
           /\ phoneme_segments[k].start <= phoneme_segments[k].end
    /\ \A k \in 2..Len(phoneme_segments) :
           phoneme_segments[k].start >= phoneme_segments[k - 1].end

\* C9 as claimed: every segment has 0 <= start <= end <= audio_duration
\* (= len(audio) / sample_rate), and each segment starts at or after the end
\* of the one before.
C9_SegmentsWithinDuration ==
    /\ SegmentsOrdered
    /\ \A k \in DOMAIN phoneme_segments :
           phoneme_segments[k].end * sample_rate <= audio_len * 1000

\* C9 as amended: every segment has 0 <= start <= end <= audio_duration
\* rounded to 3 decimal places, and each segment starts at or after the end
\* of the one before.
C9_SegmentsWithinRoundedDuration ==
    /\ SegmentsOrdered
    /\ \A k \in DOMAIN phoneme_segments :
           phoneme_segments[k].end <= DurationMs

C9_Witness ==
    /\ Returned
    /\ Len(phoneme_segments) >= 2
    /\ audio_len = 411
    /\ phoneme_segments[Len(phoneme_segments)].end = DurationMs
    /\ phoneme_segments[1].start < phoneme_segments[1].end

\* C10 (empty frame stream): with zero frames the collapser returns the
\* empty segment list and raises nothing.
C10_EmptyStreamReturnsEmpty ==
    (num_frames = 0 /\ pcC # "start") => (Returned /\ phoneme_segments = <<>>)

\* ======================================================================
\* VowelAssessor._extract_vowels
\* ======================================================================
IsVowel(p) == p \in DOMAIN IPA_VOWELS

\* "if i + 1 < len(phonemes): diphthong = p + phonemes[i + 1];
\*  if diphthong in IPA_VOWELS"
DiphthongAt(ph, i) ==
    /\ i + 1 < Len(ph)
    /\ IsVowel(At(ph, i) \o At(ph, i + 1))

ScanStepSingleFirst(ph, i) ==
    IF IsVowel(At(ph, i))
    THEN [emit |-> <<At(ph, i)>>, used |-> {i}, next |-> i + 1]
    ELSE IF DiphthongAt(ph, i)
    THEN [emit |-> <<At(ph, i) \o At(ph, i + 1)>>, used |-> {i, i + 1}, next |-> i + 2]
    ELSE [emit |-> <<>>, used |-> {i}, next |-> i + 1]

ScanStepNoSkip(ph, i) ==
    IF DiphthongAt(ph, i)
    THEN [emit |-> <<At(ph, i) \o At(ph, i + 1)>>, used |-> {i, i + 1}, next |-> i + 1]
    ELSE [emit |-> IF IsVowel(At(ph, i)) THEN <<At(ph, i)>> ELSE <<>>,
          used |-> {i}, next |-> i + 1]

\* One iteration of "while i < len(phonemes)": what is appended to vowels,
\* the positions read for it, and the next i.
ScanStep(ph, i) ==
    IF DiphthongAt(ph, i)
    THEN [emit |-> <<At(ph, i) \o At(ph, i + 1)>>, used |-> {i, i + 1}, next |-> i + 2]
    ELSE [emit |-> IF IsVowel(At(ph, i)) THEN <<At(ph, i)>> ELSE <<>>,
          used |-> {i}, next |-> i + 1]

\* _extract_vowels as a function: the vowels appended from position i on.
RECURSIVE ExtractFrom(_, _)
ExtractFrom(ph, i) ==
    IF i >= Len(ph) THEN <<>>
    ELSE ScanStep(ph, i).emit \o ExtractFrom(ph, ScanStep(ph, i).next)

ExtractVowels(ph) == ExtractFrom(ph, 0)

\* Symbols the extractor is exercised on: consonants b, t; a (no vowel on its
\* own); I, @, O (vowels on their own); aI, I@, OI are diphthongs.
ExtractSymbols == {"b", "t", "a", "I", "@", "O"}

InitExtract ==
    /\ phonemes \in SeqsUpTo(ExtractSymbols, MaxPhonemes)
    /\ ex_i = 0
    /\ vowels = <<>>
    /\ vowel_pos = <<>>
    /\ pcE = "loop"
    /\ AlignIdle /\ CollapseIdle /\ ScoreIdle /\ FocusIdle /\ AssessIdle /\ ServiceIdle

ExtractIterate ==
    /\ pcE = "loop"
    /\ ex_i < Len(phonemes)
    /\ LET st == ScanStep(phonemes, ex_i)
       IN /\ vowels' = vowels \o st.emit
          /\ vowel_pos' = vowel_pos \o [k \in 1..Len(st.emit) |-> st.used]
          /\ ex_i' = st.next
    /\ UNCHANGED <<phonemes, pcE, alignVars, collapseVars, scoreVars, focusVars,
                   assessVars, serviceVars>>

ExtractReturn ==
    /\ pcE = "loop"
    /\ ex_i >= Len(phonemes)
    /\ pcE' = "done"
    /\ UNCHANGED <<phonemes, ex_i, vowels, vowel_pos, alignVars, collapseVars,
                   scoreVars, focusVars, assessVars, serviceVars>>

NextExtract == ExtractIterate \/ ExtractReturn

\* The loop is straight-line code: a step that can be taken is taken.
SpecExtract == InitExtract /\ [][NextExtract]_vars /\ WF_vars(NextExtract)

\* ---------------------------------------------------------------- claims
\* C11 (diphthong greediness): at every scan position where the current and
\* the next symbol concatenate to a key of the vowel table, the step appends
\* that unit as one vowel and moves two positions on, also when the current
\* symbol is a vowel on its own; and ['b','a','I','t'] yields ['aI'].
C11_DiphthongGreedy ==
    /\ [][(/\ pcE = "loop"
           /\ ex_i + 1 < Len(phonemes)
           /\ (At(phonemes, ex_i) \o At(phonemes, ex_i + 1)) \in DOMAIN IPA_VOWELS)
          => (/\ vowels' = Append(vowels, At(phonemes, ex_i) \o At(phonemes, ex_i + 1))
              /\ ex_i' = ex_i + 2)]_vars
    /\ []((pcE = "done" /\ phonemes = <<"b", "a", "I", "t">>) => vowels = <<"aI">>)

C11_Witness ==
    /\ pcE = "done"
    /\ phonemes = <<"b", "O", "I", "t">>
    /\ vowels = <<"OI">>
    /\ vowel_pos = <<{1, 2}>>

SetMax(S) == CHOOSE x \in S : \A y \in S : y <= x

SetMin(S) == CHOOSE x \in S : \A y \in S : x <= y

\* The concatenation of the input symbols at positions lo..hi.
RECURSIVE ConcatAt(_, _, _)
ConcatAt(ph, lo, hi) ==
    IF lo > hi THEN "" ELSE At(ph, lo) \o ConcatAt(ph, lo + 1, hi)

ExtractOrdered ==
    /\ Len(vowel_pos) = Len(vowels)
    /\ \A k \in DOMAIN vowels :
           /\ vowels[k] \in DOMAIN IPA_VOWELS
           /\ vowel_pos[k] \subseteq 0..(Len(phonemes) - 1)
           /\ vowels[k] = ConcatAt(phonemes, SetMin(vowel_pos[k]), SetMax(vowel_pos[k]))
    /\ \A k \in DOMAIN vowels : \A l \in DOMAIN vowels :
           k < l => SetMax(vowel_pos[k]) < SetMin(vowel_pos[l])

\* C12: _extract_vowels terminates; its output lists vowels in the order of
\* the input positions they are read from, no input position is read for two
\* emitted vowels, and every emitted vowel is a key of the vowel table.
C12_ExtractOrderedAndTerminates ==
    /\ []ExtractOrdered
    /\ <>(pcE = "done")

C12_Witness ==
    /\ pcE = "done"
    /\ Len(vowels) = 2
    /\ vowel_pos = <<{0, 1}, {3}>>

\* ======================================================================
\* AlignmentService.get_phoneme_alignment and _phonemes_similar
\* ======================================================================
\* X-SAMPA: "Q" = turned script a, "T" = theta, "D" = eth, "S" = esh,
\* "Z" = ezh.
vowel_groups ==
    { {"i", "I", "i:"}, {"e", "E", "eI"}, {"{", "a", "A"},
      {"O", "o", "oU", "Q"}, {"u", "U", "u:"}, {"@", "V", "3"} }

consonant_groups ==
    { {"t", "d"}, {"p", "b"}, {"k", "g"}, {"f", "v"}, {"s", "z"},
      {"T", "D"}, {"S", "Z"}, {"tS", "dZ"} }

PhonemesSimilarVowelsOnly(p1, p2) ==
    \E group \in vowel_groups : p1 \in group /\ p2 \in group

\* _phonemes_similar
PhonemesSimilar(p1, p2) ==
    \/ \E group \in vowel_groups : p1 \in group /\ p2 \in group
    \/ \E group \in consonant_groups : p1 \in group /\ p2 \in group

\* "match = 1.0 if detected == expected else 0.0; if match == 0.0 and
\*  self._phonemes_similar(expected, detected): match = 0.5" (thousandths)
MatchScore(exp, det) ==
    IF det = exp THEN 1000
    ELSE IF PhonemesSimilar(exp, det) THEN 500
    ELSE 0

\* result["phoneme_segments"][i]: the segment the i-th detected phoneme came
\* from (0.1 s per segment).
ScoreSegment(det, i) ==
    [phoneme |-> At(det, i), start |-> 100 * i, end |-> 100 * (i + 1), confidence |-> 900]

\* The entry appended for expected_phonemes[i].
ScoreEntry(exp, det, i) ==
    IF i < Len(det)
    THEN [expected |-> At(exp, i),
          detected |-> At(det, i),
          score    |-> MatchScore(At(exp, i), At(det, i)),
          timing   |-> ScoreSegment(det, i)]
    ELSE [expected |-> At(exp, i),
          detected |-> None,
          score    |-> 0,
          timing   |-> None]

\* np.mean of the scores, 0.0 for no scores: a ratio of thousandths.
ScoreMean(scores) ==
    IF scores = <<>> THEN [num |-> 0, den |-> 1]
    ELSE [num |-> SumSeq([k \in DOMAIN scores |-> scores[k].score]),
          den |-> 1000 * Len(scores)]

ScoreSymbols == {"t", "d", "k", "i", "I"}

InitScore ==
    /\ sc_expected \in SeqsUpTo(ScoreSymbols, MaxScoreLen)
    /\ detected_phonemes \in SeqsUpTo(ScoreSymbols, MaxScoreLen)
    /\ alignment_scores = <<>>
    /\ sc_result = None
    /\ pcS = "loop"
    /\ AlignIdle /\ CollapseIdle /\ ExtractIdle /\ FocusIdle /\ AssessIdle /\ ServiceIdle

\* One iteration of "for i, expected in enumerate(expected_phonemes)".
ScoreIterate ==
    /\ pcS = "loop"
    /\ Len(alignment_scores) < Len(sc_expected)
    /\ alignment_scores' =
           Append(alignment_scores,
                  ScoreEntry(sc_expected, detected_phonemes, Len(alignment_scores)))
    /\ UNCHANGED <<sc_expected, detected_phonemes, sc_result, pcS, alignVars,
                   collapseVars, extractVars, focusVars, assessVars, serviceVars>>

ScoreReturn ==
    /\ pcS = "loop"
    /\ Len(alignment_scores) = Len(sc_expected)
    /\ sc_result' = [alignment          |-> alignment_scores,
                     overall_score      |-> ScoreMean(alignment_scores),
                     detected_phonemes  |-> detected_phonemes,
                     expected_phonemes  |-> sc_expected]
    /\ pcS' = "done"
    /\ UNCHANGED <<sc_expected, detected_phonemes, alignment_scores, alignVars,
                   collapseVars, extractVars, focusVars, assessVars, serviceVars>>

NextScore == ScoreIterate \/ ScoreReturn

SpecScore == InitScore /\ [][NextScore]_vars

\* ---------------------------------------------------------------- claims
\* The confusion groups among the symbols scored here: t/d (voicing pair)
\* and i/I (vowel cluster); k is in neither.
SameConfusionGroup(a, b) == {a, b} \subseteq {"t", "d"} \/ {a, b} \subseteq {"i", "I"}

\* C13 (per-symbol scoring): an expected symbol with a detected symbol at the
\* same index scores 1.0 iff the two are equal, 0.5 iff they differ and share
\* a confusion group, 0.0 otherwise, so ('t','d') scores 0.5, ('t','t') 1.0
\* and ('t','k') 0.0; an expected symbol with no detected symbol at its
\* index scores 0.0.
C13_PerSymbolScore ==
    \A k \in DOMAIN alignment_scores :
        LET e == alignment_scores[k]
        IN /\ e.expected = sc_expected[k]
           /\ IF k <= Len(detected_phonemes)
              THEN /\ e.detected = detected_phonemes[k]
                   /\ e.score \in {0, 500, 1000}
                   /\ e.score = 1000 <=> e.detected = e.expected
                   /\ e.score = 500 <=> (/\ e.detected # e.expected
                                         /\ SameConfusionGroup(e.expected, e.detected))
                   /\ (e.expected = "t" /\ e.detected = "d") => e.score = 500
                   /\ (e.expected = "t" /\ e.detected = "t") => e.score = 1000
                   /\ (e.expected = "t" /\ e.detected = "k") => e.score = 0
              ELSE e.detected = None /\ e.score = 0

C13_Witness ==
    /\ pcS = "done"
    /\ sc_expected = <<"t", "t">>
    /\ detected_phonemes = <<"d">>
    /\ alignment_scores[1].score = 500
    /\ alignment_scores[2].score = 0

\* ======================================================================
\* VowelAssessor._identify_focus_areas
\* ======================================================================
\* IPA_VOWELS.get(v, {}).get('example', '')
VowelExample(v) == IF v \in DOMAIN IPA_VOWELS THEN IPA_VOWELS[v].example ELSE ""

\* IPA_VOWELS.get(v, {}).get('difficulty', 'medium')
VowelDifficulty(v) == IF v \in DOMAIN IPA_VOWELS THEN IPA_VOWELS[v].difficulty ELSE "medium"

DifficultyRankReversed(d) ==
    IF d = "high" THEN 2 ELSE IF d = "medium" THEN 1 ELSE IF d = "low" THEN 0 ELSE 1

\* difficulty_order.get(d, 1)
DifficultyRank(d) ==
    IF d = "high" THEN 0 ELSE IF d = "medium" THEN 1 ELSE IF d = "low" THEN 2 ELSE 1

TallyStepAnySymbol(counts, error) ==
    LET v == IF error.expected = None THEN error.actual ELSE error.expected
    IN IF \E k \in DOMAIN counts : counts[k].vowel = v
       THEN [k \in DOMAIN counts |->
                 IF counts[k].vowel = v
                 THEN [counts[k] EXCEPT !.count = @ + 1]
                 ELSE counts[k]]
       ELSE Append(counts, [vowel      |-> v,
                            count      |-> 1,
                            name       |-> VowelName(v),
                            example    |-> VowelExample(v),
                            difficulty |-> VowelDifficulty(v)])

\* One iteration of the tally loop: errors without an expected symbol are
\* skipped, a new symbol is added at the end of the dict.
TallyStep(counts, error) ==
    IF error.expected = None THEN counts
    ELSE IF \E k \in DOMAIN counts : counts[k].vowel = error.expected
    THEN [k \in DOMAIN counts |->
              IF counts[k].vowel = error.expected
              THEN [counts[k] EXCEPT !.count = @ + 1]
              ELSE counts[k]]
    ELSE Append(counts, [vowel      |-> error.expected,
                         count      |-> 1,
                         name       |-> VowelName(error.expected),
                         example    |-> VowelExample(error.expected),
                         difficulty |-> VowelDifficulty(error.expected)])

RECURSIVE Tally(_)
Tally(errs) ==
    IF errs = <<>> THEN <<>>
    ELSE TallyStep(Tally(SubSeq(errs, 1, Len(errs) - 1)), errs[Len(errs)])

\* key(a) < key(b) for key = (-count, difficulty_order.get(difficulty, 1))
SortKeyLess(a, b) ==
    \/ a.count > b.count
    \/ /\ a.count = b.count
       /\ DifficultyRank(a.difficulty) < DifficultyRank(b.difficulty)

\* sorted() is stable: x goes before the first item whose key is greater.
InsertStable(sorted, x) ==
    LET later == {k \in DOMAIN sorted : SortKeyLess(x, sorted[k])}
        idx   == IF later = {} THEN Len(sorted) + 1
                 ELSE CHOOSE k \in later : \A m \in later : k <= m
    IN SubSeq(sorted, 1, idx - 1) \o <<x>> \o SubSeq(sorted, idx, Len(sorted))

RECURSIVE StableSort(_)
StableSort(items) ==
    IF items = <<>> THEN <<>>
    ELSE InsertStable(StableSort(SubSeq(items, 1, Len(items) - 1)), items[Len(items)])

\* f"/{vowel}/ ({info['name']}) - as in '{info['example']}' - {info['count']} error(s)"
FormatFocusArea(vowel, name, example, count) ==
    "/" \o vowel \o "/ (" \o name \o ") - as in '" \o example \o "' - "
        \o ToString(count) \o " error(s)"

\* The descriptions of sorted_vowels[:3].
FormatTop(sorted) ==
    [k \in 1..Min(3, Len(sorted)) |->
        FormatFocusArea(sorted[k].vowel, sorted[k].name, sorted[k].example, sorted[k].count)]

IdentifyFocusAreas(errs) == FormatTop(StableSort(Tally(errs)))

\* Error lists the ranker is called on: an omission of v for a symbol v, an
\* insertion for "None". "q" stands for a symbol IPA_VOWELS does not list.
FocusSymbols == {"I", "{", "@", "E", "i", "q", None}

FocusError(v) ==
    IF v = None
    THEN [position |-> 0, expected |-> None, actual |-> "E",
          error_type |-> "insertion", actual_name |-> VowelName("E")]
    ELSE [position |-> 0, expected |-> v, actual |-> None,
          error_type |-> "missing", expected_name |-> VowelName(v)]

FocusErrorsOf(syms) == [k \in DOMAIN syms |-> FocusError(syms[k])]

\* Counts {I: 3, ae: 3, schwa: 1}, I first seen before ae, and the same with
\* ae first seen before I.
ScenarioErrors ==
    { FocusErrorsOf(<<"I", "{", "@", "I", "{", "I", "{">>),
      FocusErrorsOf(<<"{", "@", "I", "{", "I", "{", "I">>) }

InitFocus ==
    /\ errors \in {FocusErrorsOf(syms) : syms \in SeqsUpTo(FocusSymbols, MaxErrors)}
                    \cup ScenarioErrors
    /\ fa_i = 0
    /\ error_counts = <<>>
    /\ sorted_vowels = <<>>
    /\ fa_focus_areas = <<>>
    /\ pcF = "tally"
    /\ AlignIdle /\ CollapseIdle /\ ExtractIdle /\ ScoreIdle /\ AssessIdle /\ ServiceIdle

\* One iteration of "for error in errors".
FocusTally ==
    /\ pcF = "tally"
    /\ fa_i < Len(errors)
    /\ error_counts' = TallyStep(error_counts, At(errors, fa_i))
    /\ fa_i' = fa_i + 1
    /\ UNCHANGED <<errors, sorted_vowels, fa_focus_areas, pcF, alignVars,
                   collapseVars, extractVars, scoreVars, assessVars, serviceVars>>

FocusSort ==
    /\ pcF = "tally"
    /\ fa_i >= Len(errors)
    /\ sorted_vowels' = StableSort(error_counts)
    /\ pcF' = "format"
    /\ UNCHANGED <<errors, fa_i, error_counts, fa_focus_areas, alignVars,
                   collapseVars, extractVars, scoreVars, assessVars, serviceVars>>

FocusReturn ==
    /\ pcF = "format"
    /\ fa_focus_areas' = FormatTop(sorted_vowels)
    /\ pcF' = "done"
    /\ UNCHANGED <<errors, fa_i, error_counts, sorted_vowels, alignVars,
                   collapseVars, extractVars, scoreVars, assessVars, serviceVars>>

NextFocus == FocusTally \/ FocusSort \/ FocusReturn

SpecFocus == InitFocus /\ [][NextFocus]_vars

\* ---------------------------------------------------------------- claims
\* The symbols that occur as the expected symbol of an error, how often, and
\* where first.
FocusSeen == {errors[k].expected : k \in DOMAIN errors} \ {None}
FocusCount(v) == Cardinality({k \in DOMAIN errors : errors[k].expected = v})
FocusFirst(v) == CHOOSE k \in DOMAIN errors :
                     /\ errors[k].expected = v
                     /\ \A m \in DOMAIN errors : errors[m].expected = v => k <= m
FocusRankOf(v) ==
    LET d == VowelDifficulty(v)
    IN IF d = "high" THEN 0 ELSE IF d = "low" THEN 2 ELSE 1

\* u is ranked before v: more errors; or as many and harder; or as many, as
\* hard, and seen first.
FocusBefore(u, v) ==
    \/ FocusCount(u) > FocusCount(v)
    \/ /\ FocusCount(u) = FocusCount(v)
       /\ \/ FocusRankOf(u) < FocusRankOf(v)
          \/ /\ FocusRankOf(u) = FocusRankOf(v)
             /\ FocusFirst(u) < FocusFirst(v)

\* C14 (focus-area ranking): _identify_focus_areas returns at most 3 entries;
\* the k-th entry describes the symbol that exactly k-1 symbols precede in
\* the order "more errors first, then high < medium < low difficulty, then
\* first seen", so the ranking is a function of the error list; for counts
\* {I: 3, ae: 3, schwa: 1} both I and ae precede schwa.
C14_FocusRanking ==
    pcF = "done" =>
        /\ Len(fa_focus_areas) = Min(3, Cardinality(FocusSeen))
        /\ \A k \in DOMAIN fa_focus_areas :
               \E v \in FocusSeen :
                   /\ Cardinality({u \in FocusSeen : FocusBefore(u, v)}) = k - 1
                   /\ fa_focus_areas[k] =
                          FormatFocusArea(v, VowelName(v), VowelExample(v), FocusCount(v))
        /\ errors \in ScenarioErrors =>
               /\ Len(fa_focus_areas) = 3
               /\ fa_focus_areas[3] = "/@/ (schwa) - as in 'about' - 1 error(s)"

C14_Witness ==
    /\ pcF = "done"
    /\ errors = FocusErrorsOf(<<"{", "@", "I", "{", "I", "{", "I">>)
    /\ fa_focus_areas = << "/{/ (short a) - as in 'bat' - 3 error(s)",
                           "/I/ (short i) - as in 'bit' - 3 error(s)",
                           "/@/ (schwa) - as in 'about' - 1 error(s)" >>

\* ======================================================================
\* VowelAssessor.assess: ranking and rounding after the comparison
\* ======================================================================
\* round(score, 3), in thousandths
Round3(r) == RoundDiv(1000 * r.num, r.den)

\* assess: focus_areas = self._identify_focus_areas(vowel_errors)
AssessIdentifyFocusAreas ==
    /\ pcA = "done"
    /\ focus_areas' = IdentifyFocusAreas(vowel_errors)
    /\ pcA' = "ranked"
    /\ UNCHANGED <<expected, actual, overall_score, vowel_score, vowel_errors,
                   collapseVars, restVars, serviceVars>>

NextAlign == AssessOverall \/ AssessCompareVowels \/ AssessIdentifyFocusAreas

SpecAlign == InitAlign /\ [][NextAlign]_vars

\* ---------------------------------------------------------------- claims
\* C15 (end-to-end scenario): with expected vowels [schwa, ae, ae] and actual
\* vowels [schwa, epsilon, ae] the vowel similarity is 2*2/(3+3), 0.667 after
\* rounding to 3 places; there is exactly one error, a substitution with
\* expected ae, actual epsilon, position 1; and the focus areas contain an
\* entry for /ae/ with 1 error.
C15_SubstitutionScenario ==
    (pcA = "ranked" /\ expected = <<"@", "{", "{">> /\ actual = <<"@", "E", "{">>) =>
        /\ vowel_score.num * 6 = 4 * vowel_score.den
        /\ Round3(vowel_score) = 667
        /\ Len(vowel_errors) = 1
        /\ vowel_errors[1].error_type = "substitution"
        /\ vowel_errors[1].expected = "{"
        /\ vowel_errors[1].actual = "E"
        /\ vowel_errors[1].position = 1
        /\ \E k \in DOMAIN focus_areas :
               focus_areas[k] = "/{/ (short a) - as in 'bat' - 1 error(s)"

\* ======================================================================
\* VowelAssessor.assess as a whole: _text_to_phonemes and the result dict
\* ======================================================================
ARPABET_VOWELS ==
    ("AA" :> "A")  @@ ("AE" :> "{")  @@ ("AH" :> "V")  @@ ("AO" :> "O")  @@
    ("AW" :> "aU") @@ ("AY" :> "aI") @@ ("EH" :> "E")  @@ ("ER" :> "3")  @@
    ("EY" :> "eI") @@ ("IH" :> "I")  @@ ("IY" :> "i")  @@ ("OW" :> "oU") @@
    ("OY" :> "OI") @@ ("UH" :> "U")  @@ ("UW" :> "u")

\* str.lower() on the ARPAbet consonants.
Lower ==
    ("B" :> "b")   @@ ("CH" :> "ch") @@ ("D" :> "d")   @@ ("DH" :> "dh") @@
    ("F" :> "f")   @@ ("G" :> "g")   @@ ("HH" :> "hh") @@ ("JH" :> "jh") @@
    ("K" :> "k")   @@ ("L" :> "l")   @@ ("M" :> "m")   @@ ("N" :> "n")   @@
    ("NG" :> "ng") @@ ("P" :> "p")   @@ ("R" :> "r")   @@ ("S" :> "s")   @@
    ("SH" :> "sh") @@ ("T" :> "t")   @@ ("TH" :> "th") @@ ("V" :> "v")   @@
    ("W" :> "w")   @@ ("Y" :> "y")   @@ ("Z" :> "z")   @@ ("ZH" :> "zh")

\* A g2p token: the ARPAbet symbol and its stress digit ("" for none); the
\* token between two words is a single space.
Tok(sym, stress) == [sym |-> sym, stress |-> stress]
SpaceTok == Tok(" ", "")

\* g2p_en.G2p on the words used here (the pronouncing dictionary's entries).
G2PWord ==
    ("the" :> <<Tok("DH", ""), Tok("AH", "0")>>) @@
    ("cat" :> <<Tok("K", ""), Tok("AE", "1"), Tok("T", "")>>) @@
    ("sat" :> <<Tok("S", ""), Tok("AE", "1"), Tok("T", "")>>) @@
    ("bit" :> <<Tok("B", ""), Tok("IH", "1"), Tok("T", "")>>)

\* self.g2p(text): the words' tokens with a space token between two words.
\* A text is held as the list of words expected_text.split() yields.
RECURSIVE G2P(_)
G2P(text) ==
    IF text = <<>> THEN <<>>
    ELSE IF Len(text) = 1 THEN G2PWord[text[1]]
    ELSE G2PWord[text[1]] \o <<SpaceTok>> \o G2P(Tail(text))

\* [p for p in arpabet if p.strip() and not p.startswith(' ')]
PhonemeTokensOf(arpabet) == SelectSeq(arpabet, LAMBDA p : p.sym # " ")

\* base_p = re.sub(r'[012]', '', p); ARPABET_VOWELS[base_p] or base_p.lower()
ToIPA(p) ==
    IF p.sym \in DOMAIN ARPABET_VOWELS THEN ARPABET_VOWELS[p.sym] ELSE Lower[p.sym]

\* ' '.join(items)
RECURSIVE JoinSpace(_)
JoinSpace(items) ==
    IF items = <<>> THEN ""
    ELSE IF Len(items) = 1 THEN items[1]
    ELSE items[1] \o " " \o JoinSpace(Tail(items))

\* _text_to_phonemes: (phoneme_string, phoneme_list)
TextToPhonemes(text) ==
    LET phoneme_list == PhonemeTokensOf(G2P(text))
        ipa_list     == [k \in DOMAIN phoneme_list |-> ToIPA(phoneme_list[k])]
    IN [str |-> JoinSpace(ipa_list), list |-> ipa_list]

ExpectedFromCaller(text, expected_phonemes) ==
    IF expected_phonemes = None THEN TextToPhonemes(text)
    ELSE [str |-> expected_phonemes, list |-> TextToPhonemes(text).list]

\* assess: "expected_phonemes, expected_list = self._text_to_phonemes(
\* expected_text)": the argument expected_phonemes is overwritten unread.
ExpectedFrom(text, expected_phonemes) == TextToPhonemes(text)

\* An Optional[list] argument: None, or a list.
NoneList == [is_none |-> TRUE, list |-> <<>>]
SomeList(l) == [is_none |-> FALSE, list |-> l]

\* bool(focus_vowels): None and the empty list are false.
Truthy(focus_vowels) == ~focus_vowels.is_none /\ focus_vowels.list # <<>>

\* [e for e in vowel_errors if e.get('expected') in focus_vowels
\*                          or e.get('actual') in focus_vowels]
FocusErrors(errs, focus_vowels) ==
    IF Truthy(focus_vowels)
    THEN SelectSeq(errs, LAMBDA e :
             \/ \E k \in DOMAIN focus_vowels.list : focus_vowels.list[k] = e.expected
             \/ \E k \in DOMAIN focus_vowels.list : focus_vowels.list[k] = e.actual)
    ELSE errs

RankedFocusErrors(errs, focus_errors) == focus_errors

\* "for error in vowel_errors" (timing) reads the unfiltered list;
\* focus_errors is not read after its assignment.
TimedErrors(errs, focus_errors) == errs

\* "self._identify_focus_areas(vowel_errors)" reads the unfiltered list.
RankedErrors(errs, focus_errors) == errs

\* timing.get(key, 0) on a word-alignment entry, and int(seconds * 1000) in
\* ms; entries carry their times in whole ms.
GetOr(d, key, default) == IF key \in DOMAIN d THEN d[key] ELSE default

\* error.copy() plus 'word', 'timestamp_ms', 'end_timestamp_ms' when
\* position < len(word_alignments); the copy alone otherwise.
WithTiming(error, word_alignments) ==
    IF error.position < Len(word_alignments)
    THEN LET word_info == At(word_alignments, error.position)
         IN [word             |-> GetOr(word_info, "word", ""),
             timestamp_ms     |-> GetOr(word_info, "start", 0),
             end_timestamp_ms |-> GetOr(word_info, "end", 0)] @@ error
    ELSE error

\* One entry of word_details.
WordDetail(text, word_alignments, i) ==
    LET tp     == TextToPhonemes(<<At(text, i)>>)
        timing == IF i < Len(word_alignments) THEN At(word_alignments, i)
                  ELSE <<>>
    IN [word              |-> At(text, i),
        expected_phonemes |-> tp.str,
        expected_vowels   |-> ExtractVowels(tp.list),
        start_ms          |-> GetOr(timing, "start", 0),
        end_ms            |-> GetOr(timing, "end", 0),
        confidence        |-> GetOr(timing, "score", 1000)]

CorrectVowelsAllErrors(expected_vowels, errs) == Len(expected_vowels) - Len(errs)

\* len(expected_vowels) - len([e for e in vowel_errors
\*                             if e['error_type'] != 'insertion'])
CorrectVowels(expected_vowels, errs) ==
    Len(expected_vowels) - Len(SelectSeq(errs, LAMBDA e : e.error_type # "insertion"))

\* assess(expected_text, expected_phonemes, actual_phonemes,
\* actual_phoneme_list, word_alignments, focus_vowels); actual_phonemes is
\* only logged.
Assess(expected_text, expected_phonemes, actual_phoneme_list, word_alignments, focus_vowels) ==
    LET exp             == ExpectedFrom(expected_text, expected_phonemes)
        expected_list   == exp.list
        expected_vowels == ExtractVowels(expected_list)
        actual_vowels   == ExtractVowels(actual_phoneme_list)
        cmp             == CompareVowelSequences(expected_vowels, actual_vowels)
        focus_errors    == FocusErrors(cmp.errors, focus_vowels)
        timed           == TimedErrors(cmp.errors, focus_errors)
    IN [overall_score     |-> Round3(Ratio(expected_list, actual_phoneme_list)),
        vowel_score       |-> Round3(cmp.ratio),
        vowel_errors      |-> [k \in DOMAIN timed |-> WithTiming(timed[k], word_alignments)],
        focus_areas       |-> IdentifyFocusAreas(RankedErrors(cmp.errors, focus_errors)),
        word_details      |-> [k \in DOMAIN expected_text |->
                                   WordDetail(expected_text, word_alignments, k - 1)],
        expected_phonemes |-> exp.str,
        expected_vowels   |-> expected_vowels,
        actual_vowels     |-> actual_vowels,
        total_vowels      |-> Len(expected_vowels),
        correct_vowels    |-> CorrectVowels(expected_vowels, cmp.errors)]

\* --------------------------------------------------- assess: the machine
\* expected_text, as its words.
Texts == { <<>>, <<"bit">>, <<"the", "cat", "sat">> }

\* What the phoneme extractor hands over.
ActualSymbols == {"k", "{", "E"}

\* Word-level timing: none, the first word only, and three words of which
\* the second has no start and end.
WordAlignmentChoices ==
    { <<>>,
      << [word |-> "the", start |-> 0, end |-> 120, score |-> 950] >>,
      << [word |-> "the", start |-> 0, end |-> 120, score |-> 950],
         [word |-> "cat", score |-> 800],
         [word |-> "sat", start |-> 400, end |-> 650, score |-> 700] >> }

\* expected_phonemes: None, an IPA string, a legacy ARPAbet string.
ExpectedPhonemesChoices == {None, "k { t", "K AE1 T"}

\* focus_vowels: None, the empty list, one vowel.
FocusVowelsChoices == {NoneList, SomeList(<<>>), SomeList(<<"{">>)}

InitAssess ==
    /\ call \in [expected_text       : Texts,
                 expected_phonemes   : ExpectedPhonemesChoices,
                 actual_phoneme_list : SeqsUpTo(ActualSymbols, MaxActual),
                 word_alignments     : WordAlignmentChoices,
                 focus_vowels        : FocusVowelsChoices]
    /\ variant \in {v \in [expected_phonemes : ExpectedPhonemesChoices,
                           focus_vowels      : FocusVowelsChoices] :
                        \/ v.expected_phonemes = call.expected_phonemes
                        \/ v.focus_vowels = call.focus_vowels}
    /\ resultA = None
    /\ resultB = None
    /\ pcQ = "first"
    /\ AlignIdle /\ CollapseIdle /\ ExtractIdle /\ ScoreIdle /\ FocusIdle /\ ServiceIdle

\* The first call.
AssessFirst ==
    /\ pcQ = "first"
    /\ resultA' = Assess(call.expected_text, call.expected_phonemes,
                         call.actual_phoneme_list, call.word_alignments,
                         call.focus_vowels)
    /\ pcQ' = "second"
    /\ UNCHANGED <<call, variant, resultB, alignVars, collapseVars, extractVars,
                   scoreVars, focusVars, serviceVars>>

\* The second call: the same text, phoneme list and word alignments, the
\* variant's expected_phonemes and focus_vowels.
AssessSecond ==
    /\ pcQ = "second"
    /\ resultB' = Assess(call.expected_text, variant.expected_phonemes,
                         call.actual_phoneme_list, call.word_alignments,
                         variant.focus_vowels)
    /\ pcQ' = "done"
    /\ UNCHANGED <<call, variant, resultA, alignVars, collapseVars, extractVars,
                   scoreVars, focusVars, serviceVars>>

NextAssess == AssessFirst \/ AssessSecond

SpecAssess == InitAssess /\ [][NextAssess]_vars

\* ---------------------------------------------------------------- claims
\* The errors _compare_vowel_sequences reports for the call's vowels.
CallErrors ==
    CompareVowelSequences(ExtractVowels(TextToPhonemes(call.expected_text).list),
                          ExtractVowels(call.actual_phoneme_list)).errors

NonInsertions(errs) == Cardinality({k \in DOMAIN errs : errs[k].error_type # "insertion"})

\* C16 (correct_vowels): in every assessment result correct_vowels =
\* total_vowels - (number of vowel errors whose kind is not insertion), with
\* total_vowels the number of expected vowels; insertions do not lower it.
C16_CorrectVowels ==
    pcQ \in {"second", "done"} =>
        /\ resultA.total_vowels = Len(resultA.expected_vowels)
        /\ Len(resultA.vowel_errors) = Len(CallErrors)
        /\ resultA.correct_vowels =
               resultA.total_vowels - NonInsertions(resultA.vowel_errors)

C16_Witness ==
    /\ pcQ = "done"
    /\ call.expected_text = <<"the", "cat", "sat">>
    /\ call.actual_phoneme_list = <<"{", "{", "{">>
    /\ \E k \in DOMAIN resultA.vowel_errors :
           resultA.vowel_errors[k].error_type = "insertion"
    /\ resultA.total_vowels = 3
    /\ resultA.correct_vowels = 2

\* The list given as focus_vowels holds symbol v.
InFocus(focus_vowels, v) ==
    \E k \in DOMAIN focus_vowels.list : focus_vowels.list[k] = v

\* C17 (focus filter on the report): when assess is called with a non-empty
\* focus_vowels list, every vowel error reported in the result has its
\* expected or its actual symbol among the focus vowels.
C17_ReportOnlyFocusErrors ==
    (pcQ \in {"second", "done"} /\ Truthy(call.focus_vowels)) =>
        \A k \in DOMAIN resultA.vowel_errors :
            \/ InFocus(call.focus_vowels, resultA.vowel_errors[k].expected)
            \/ InFocus(call.focus_vowels, resultA.vowel_errors[k].actual)

\* C18 (focus vowels affect no score): two assess calls that differ only in
\* focus_vowels agree on overall_score, vowel_score, total_vowels,
\* correct_vowels and focus_areas, and the focus areas are those ranked from
\* the unfiltered vowel error list.
C18_FocusVowelsAffectNoScore ==
    (pcQ = "done" /\ variant.expected_phonemes = call.expected_phonemes) =>
        /\ resultA.overall_score = resultB.overall_score
        /\ resultA.vowel_score = resultB.vowel_score
        /\ resultA.total_vowels = resultB.total_vowels
        /\ resultA.correct_vowels = resultB.correct_vowels
        /\ resultA.focus_areas = resultB.focus_areas
        /\ resultB.focus_areas = IdentifyFocusAreas(CallErrors)

\* The second call names a focus vowel that one of the errors does not touch.
C18_Witness ==
    /\ pcQ = "done"
    /\ variant.expected_phonemes = call.expected_phonemes
    /\ call.focus_vowels = NoneList
    /\ variant.focus_vowels = SomeList(<<"{">>)
    /\ call.expected_text = <<"the", "cat", "sat">>
    /\ call.actual_phoneme_list = <<"{", "{", "{">>
    /\ FocusErrors(CallErrors, variant.focus_vowels) # CallErrors
    /\ resultB.focus_areas = << "/V/ (short u) - as in 'but' - 1 error(s)" >>

\* C19 (timing of errors): each reported vowel error takes its timing from
\* the word-alignment entry at index = its position; when the position is
\* not less than the length of the word-alignment list, timestamp_ms and
\* end_timestamp_ms are present and zero.
C19_TimingDefaultsToZero ==
    pcQ \in {"second", "done"} =>
        \A k \in DOMAIN resultA.vowel_errors :
            LET e == resultA.vowel_errors[k]
            IN /\ "timestamp_ms" \in DOMAIN e
               /\ "end_timestamp_ms" \in DOMAIN e
               /\ IF e.position < Len(call.word_alignments)
                  THEN LET w == At(call.word_alignments, e.position)
                       IN /\ e.timestamp_ms = GetOr(w, "start", 0)
                          /\ e.end_timestamp_ms = GetOr(w, "end", 0)
                  ELSE /\ e.timestamp_ms = 0
                       /\ e.end_timestamp_ms = 0

COMMON_CONFUSIONS ==
    << <<"I", "i">>, <<"E", "eI">>, <<"{", "E">>, <<"V", "A">>, <<"U", "u">>,
       <<"O", "oU">> >>

\* The module-level tables of vowel_assessor.py.
SharedTables ==
    [IPA_VOWELS        |-> IPA_VOWELS,
     ARPABET_VOWELS    |-> ARPABET_VOWELS,
     COMMON_CONFUSIONS |-> COMMON_CONFUSIONS]

Invocations == {1, 2}

\* The calls made concurrently.
ConcurrentCalls ==
    [expected_text       : { <<"bit">>, <<"the", "cat", "sat">> },
     expected_phonemes   : {None},
     actual_phoneme_list : { <<>>, <<"E">>, <<"{", "{", "{">> },
     word_alignments     : { << [word |-> "the", start |-> 0, end |-> 120, score |-> 950] >> },
     focus_vowels        : {NoneList}]

\* The locals of an invocation before its first step.
NewFrame(c) ==
    [args              |-> c,
     expected_phonemes |-> None,
     expected_list     |-> <<>>,
     expected_vowels   |-> <<>>,
     actual_vowels     |-> <<>>,
     overall_score     |-> 0,
     vowel_score       |-> 0,
     vowel_errors      |-> <<>>,
     timed_errors      |-> <<>>,
     word_details      |-> <<>>,
     focus_areas       |-> <<>>,
     result            |-> None]

LocalsOfLastStep(fr, last, p) == fr[last]

\* The variables a step of invocation p reads: Python locals belong to the
\* call, none is an attribute of the shared VowelAssessor instance.
LocalsOf(fr, last, p) == fr[p]

\* assess, "Generating expected phonemes" to "actual_vowels = ..."
StepExtract(f) ==
    LET exp == ExpectedFrom(f.args.expected_text, f.args.expected_phonemes)
    IN [f EXCEPT !.expected_phonemes = exp.str,
                 !.expected_list     = exp.list,
                 !.expected_vowels   = ExtractVowels(exp.list),
                 !.actual_vowels     = ExtractVowels(f.args.actual_phoneme_list)]

\* assess, overall_matcher to _compare_vowel_sequences
StepAlign(f) ==
    LET cmp == CompareVowelSequences(f.expected_vowels, f.actual_vowels)
    IN [f EXCEPT !.overall_score = Round3(Ratio(f.expected_list, f.args.actual_phoneme_list)),
                 !.vowel_score   = Round3(cmp.ratio),
                 !.vowel_errors  = cmp.errors]

\* assess, focus filter, timing, word details and _identify_focus_areas
StepRank(f) ==
    LET focus_errors == FocusErrors(f.vowel_errors, f.args.focus_vowels)
        timed        == TimedErrors(f.vowel_errors, focus_errors)
    IN [f EXCEPT !.timed_errors = [k \in DOMAIN timed |->
                                      WithTiming(timed[k], f.args.word_alignments)],
                 !.word_details = [k \in DOMAIN f.args.expected_text |->
                                      WordDetail(f.args.expected_text,
                                                 f.args.word_alignments, k - 1)],
                 !.focus_areas  = IdentifyFocusAreas(RankedErrors(f.vowel_errors, focus_errors))]

\* assess, the result dict
StepAssemble(f) ==
    [f EXCEPT !.result =
        [overall_score     |-> f.overall_score,
         vowel_score       |-> f.vowel_score,
         vowel_errors      |-> f.timed_errors,
         focus_areas       |-> f.focus_areas,
         word_details      |-> f.word_details,
         expected_phonemes |-> f.expected_phonemes,
         expected_vowels   |-> f.expected_vowels,
         actual_vowels     |-> f.actual_vowels,
         total_vowels      |-> Len(f.expected_vowels),
         correct_vowels    |-> CorrectVowels(f.expected_vowels, f.vowel_errors)]]

otherThanConc == <<coreVars, svcVars, streamVars>>

InitConcurrent ==
    /\ frames \in {[p \in Invocations |-> NewFrame(cs[p])] :
                       cs \in [Invocations -> ConcurrentCalls]}
    /\ pcI = [p \in Invocations |-> "extract"]
    /\ last_step \in Invocations
    /\ shared_tables = SharedTables
    /\ AlignIdle /\ CollapseIdle /\ ExtractIdle /\ ScoreIdle /\ FocusIdle /\ AssessIdle
    /\ SvcIdle /\ StreamIdle

\* A step of invocation p: from pc "from" to pc "to", the locals changed as
\* "after" gives them; the tables are not written.
ConcStep(p, from, to, after) ==
    /\ pcI[p] = from
    /\ frames' = [frames EXCEPT ![p] = [after EXCEPT !.args = frames[p].args]]
    /\ pcI' = [pcI EXCEPT ![p] = to]
    /\ last_step' = p
    /\ UNCHANGED <<shared_tables, otherThanConc>>

ConcExtract ==
    \E p \in Invocations :
        ConcStep(p, "extract", "align", StepExtract(LocalsOf(frames, last_step, p)))

ConcAlign ==
    \E p \in Invocations :
        ConcStep(p, "align", "rank", StepAlign(LocalsOf(frames, last_step, p)))

ConcRank ==
    \E p \in Invocations :
        ConcStep(p, "rank", "assemble", StepRank(LocalsOf(frames, last_step, p)))

ConcAssemble ==
    \E p \in Invocations :
        ConcStep(p, "assemble", "done", StepAssemble(LocalsOf(frames, last_step, p)))

NextConcurrent == ConcExtract \/ ConcAlign \/ ConcRank \/ ConcAssemble

SpecConcurrent == InitConcurrent /\ [][NextConcurrent]_vars

\* ---------------------------------------------------------------- claims
\* What the call of invocation p returns when it runs alone.
AloneResult(p) ==
    Assess(frames[p].args.expected_text, frames[p].args.expected_phonemes,
           frames[p].args.actual_phoneme_list, frames[p].args.word_alignments,
           frames[p].args.focus_vowels)

\* C21 (interleaved invocations): whatever the interleaving of the steps of
\* two invocations, each returns the result it returns when run alone, and
\* no step changes the shared lookup tables.
C21_InterleavingIsSequential ==
    /\ shared_tables = SharedTables
    /\ \A p \in Invocations : pcI[p] = "done" => frames[p].result = AloneResult(p)

\* Both invocations are done, on different inputs, and the steps alternated.
C21_Witness ==
    /\ pcI[1] = "done" /\ pcI[2] = "done"
    /\ frames[1].args.expected_text = <<"bit">>
    /\ frames[2].args.expected_text = <<"the", "cat", "sat">>
    /\ frames[1].result.total_vowels = 1
    /\ frames[2].result.total_vowels = 3
    /\ last_step = 1

\* ======================================================================
\* Further claims on the aligner, the collapser and the ranker
\* ======================================================================
\* C23 (positions of the ops): every substitution or omission has
\* 0 <= position < len(expected) and its 'expected' field is
\* expected[position]; every insertion has 0 <= position <= len(expected);
\* the ops are listed in non-decreasing position order.
C23_OpPositions ==
    pcA \in {"done", "ranked"} =>
        /\ \A k \in DOMAIN vowel_errors :
               LET e == vowel_errors[k]
               IN IF e.error_type = "insertion"
                  THEN e.position >= 0 /\ e.position <= Len(expected)
                  ELSE /\ e.position >= 0 /\ e.position < Len(expected)
                       /\ e.expected = At(expected, e.position)
        /\ \A k \in 1..(Len(vowel_errors) - 1) :
               vowel_errors[k].position <= vowel_errors[k + 1].position

\* An insertion before the first expected symbol and one after the last.
C23_Witness ==
    /\ pcA = "ranked"
    /\ expected = <<"@">>
    /\ actual = <<"{", "@", "E">>
    /\ Len(vowel_errors) = 2
    /\ vowel_errors[1].error_type = "insertion" /\ vowel_errors[1].position = 0
    /\ vowel_errors[2].error_type = "insertion" /\ vowel_errors[2].position = 1

\* The maximal runs of equal consecutive frames from frame i on (1-based):
\* symbol, first frame, last frame.
RECURSIVE RunsFrom(_, _)
RunsFrom(s, i) ==
    IF i > Len(s) THEN <<>>
    ELSE LET j == CHOOSE m \in i..Len(s) :
                      /\ \A n \in i..m : s[n] = s[i]
                      /\ m = Len(s) \/ s[m + 1] # s[i]
         IN <<[sym |-> s[i], lo |-> i, hi |-> j]>> \o RunsFrom(s, j + 1)

NonBlankRunBounds ==
    SelectSeq(RunsFrom(FrameSymbols, 1), LAMBDA r : r.sym \notin {"", "<pad>", "|"})

\* The frame confidences of a run, and their sum, minimum and maximum.
RunProbs(r) == [k \in 1..(r.hi - r.lo + 1) |-> logits[r.lo + k - 1].prob]
RunMin(r) == CHOOSE x \in {logits[n].prob : n \in r.lo..r.hi} :
                 \A n \in r.lo..r.hi : x <= logits[n].prob
RunMax(r) == CHOOSE x \in {logits[n].prob : n \in r.lo..r.hi} :
                 \A n \in r.lo..r.hi : x >= logits[n].prob

\* The k-th segment's confidence is the mean, rounded to 3 places, of the
\* frames of the k-th non-blank run and of no other frame.
ConfidenceIsOwnRunMean ==
    /\ Len(phoneme_segments) = Len(NonBlankRunBounds)
    /\ \A k \in DOMAIN phoneme_segments :
           phoneme_segments[k].confidence =
               RoundDiv(SumSeq(RunProbs(NonBlankRunBounds[k])),
                        10 * Len(RunProbs(NonBlankRunBounds[k])))

\* C24 as claimed: each emitted segment's confidence is the mean of the
\* confidences of exactly the frames of its own run, and lies between the
\* minimum and the maximum confidence of those frames.
C24_ConfidenceWithinRunRange ==
    Returned =>
        /\ ConfidenceIsOwnRunMean
        /\ \A k \in DOMAIN phoneme_segments :
               /\ 10 * phoneme_segments[k].confidence >= RunMin(NonBlankRunBounds[k])
               /\ 10 * phoneme_segments[k].confidence <= RunMax(NonBlankRunBounds[k])

\* C24 as amended: each emitted segment's confidence is the mean, rounded to
\* 3 decimal places, of the confidences of exactly the frames of its own
\* run, and lies within 0.0005 of the range from the minimum to the maximum
\* confidence of those frames.
C24_ConfidenceIsRoundedRunMean ==
    Returned =>
        /\ ConfidenceIsOwnRunMean
        /\ \A k \in DOMAIN phoneme_segments :
               /\ 10 * phoneme_segments[k].confidence >= RunMin(NonBlankRunBounds[k]) - 5
               /\ 10 * phoneme_segments[k].confidence <= RunMax(NonBlankRunBounds[k]) + 5

\* A run of two frames after a blank run, with different confidences.
C24_Witness ==
    /\ Returned
    /\ FrameSymbols = <<"<pad>", "p", "p", "t">>
    /\ logits[2].prob = 2000 /\ logits[3].prob = 3000
    /\ Len(phoneme_segments) = 2
    /\ phoneme_segments[1].confidence = 250
    /\ phoneme_segments[2].confidence = 400

\* The number of errors among the first n that are not insertions and have
\* v as their expected symbol.
Blamed(v, n) ==
    Cardinality({k \in 1..n : errors[k].error_type # "insertion" /\ errors[k].expected = v})

\* C25 (what the ranker tallies): only errors with an expected symbol
\* (substitutions and omissions) are tallied; for each listed symbol the
\* reported N is the number of non-insertion errors whose expected symbol it
\* is, and an error list made only of insertions yields no focus area.
C25_TallyOnlyExpected ==
    /\ \A k \in DOMAIN error_counts :
           /\ error_counts[k].count >= 1
           /\ error_counts[k].count = Blamed(error_counts[k].vowel, fa_i)
    /\ pcF = "done" =>
           /\ \A k \in DOMAIN fa_focus_areas :
                  \E v \in FocusSymbols \ {None} :
                      /\ Blamed(v, Len(errors)) >= 1
                      /\ fa_focus_areas[k] =
                             FormatFocusArea(v, VowelName(v), VowelExample(v),
                                             Blamed(v, Len(errors)))
           /\ (\A k \in DOMAIN errors : errors[k].error_type = "insertion")
                  => fa_focus_areas = <<>>
           /\ (\E k \in DOMAIN errors : errors[k].error_type # "insertion")
                  => fa_focus_areas # <<>>

\* Two insertions and two omissions of the same symbol.
C25_Witness ==
    /\ pcF = "done"
    /\ errors = FocusErrorsOf(<<None, "I", None, "I">>)
    /\ fa_focus_areas = << "/I/ (short i) - as in 'bit' - 2 error(s)" >>

\* C26 (correct_vowels counts the matched vowels): correct_vowels is the
\* number of expected vowels inside the matching blocks of the alignment
\* (every unmatched expected vowel is exactly one non-insertion error), so
\* 0 <= correct_vowels <= total_vowels.
C26_CorrectVowelsAreMatched ==
    pcQ \in {"second", "done"} =>
        /\ resultA.correct_vowels =
               Matches(resultA.expected_vowels, resultA.actual_vowels)
        /\ 0 <= resultA.correct_vowels
        /\ resultA.correct_vowels <= resultA.total_vowels

\* ======================================================================
\* Phoneme service: lifespan and the /phonemes, /assess, /align handlers
\* ======================================================================
\* What the two acoustic models make of an audio clip: whether it decodes,
\* the extractor's phoneme list, the aligner's segments and the duration.
Clips ==
    ("bad"     :> [ok |-> FALSE, phoneme_list |-> <<>>, segments |-> <<>>, duration |-> 0]) @@
    ("silence" :> [ok |-> TRUE, phoneme_list |-> <<>>, segments |-> <<>>, duration |-> 300]) @@
    ("cat"     :> [ok |-> TRUE, phoneme_list |-> <<"k", "{", "t">>,
                   segments |-> << [phoneme |-> "k", start |-> 0, end |-> 100, confidence |-> 900],
                                   [phoneme |-> "{", start |-> 100, end |-> 300, confidence |-> 800] >>,
                   duration |-> 400]) @@
    ("ket"     :> [ok |-> TRUE, phoneme_list |-> <<"k", "E", "t">>,
                   segments |-> << [phoneme |-> "E", start |-> 100, end |-> 300, confidence |-> 700] >>,
                   duration |-> 400])

Requests ==
    [endpoint          : {"/phonemes"},
     base64_audio      : DOMAIN Clips,
     expected_text     : { <<>> },
     expected_phonemes : {None},
     focus_vowels      : {NoneList}]
    \cup
    [endpoint          : {"/assess"},
     base64_audio      : DOMAIN Clips,
     expected_text     : Texts,
     expected_phonemes : {None, "K AE1 T"},
     focus_vowels      : {NoneList, SomeList(<<"{">>)}]
    \cup
    [endpoint          : {"/align"},
     base64_audio      : DOMAIN Clips,
     expected_text     : Texts,
     expected_phonemes : {None},
     focus_vowels      : {NoneList}]

\* PhonemeExtractor.extract_from_base64
ExtractFromBase64(audio) ==
    [phonemes     |-> JoinSpace(Clips[audio].phoneme_list),
     phoneme_list |-> Clips[audio].phoneme_list]

AlignFromBase64WithWords(audio, text) ==
    [phonemes         |-> JoinSpace([k \in DOMAIN Clips[audio].segments |->
                                        Clips[audio].segments[k].phoneme]),
     phoneme_segments |-> Clips[audio].segments,
     duration         |-> Clips[audio].duration,
     num_phonemes     |-> Len(Clips[audio].segments),
     word_segments    |-> [k \in DOMAIN text |->
                              [word |-> text[k], start |-> 100 * k, end |-> 100 * k + 50,
                               score |-> 900]]]

\* AlignmentService.align_from_base64: the keys of the returned dict
\* ('expected_text' only for a non-empty text).
AlignFromBase64(audio, text) ==
    (IF text # <<>> THEN [expected_text |-> text] ELSE <<>>) @@
    [phonemes         |-> JoinSpace([k \in DOMAIN Clips[audio].segments |->
                                        Clips[audio].segments[k].phoneme]),
     phoneme_segments |-> Clips[audio].segments,
     duration         |-> Clips[audio].duration,
     num_phonemes     |-> Len(Clips[audio].segments)]

\* raise HTTPException(status_code=..., detail=...)
HTTPError(code) == [status |-> code, body |-> <<>>]

otherThanSvc == <<coreVars, concVars, streamVars>>

lifeVars == <<phoneme_extractor, alignment_service, vowel_assessor, models_loaded, pcL>>
handlerVars == <<req, pcR, phoneme_result, alignment_result, response, used>>

InitService ==
    /\ phoneme_extractor = None
    /\ alignment_service = None
    /\ vowel_assessor = None
    /\ models_loaded = FALSE
    /\ pcL = "load_extractor"
    /\ req = None
    /\ pcR = "idle"
    /\ phoneme_result = None
    /\ alignment_result = None
    /\ response = None
    /\ used = {}
    /\ AlignIdle /\ CollapseIdle /\ ExtractIdle /\ ScoreIdle /\ FocusIdle /\ AssessIdle
    /\ ConcIdle /\ StreamIdle

\* ------------------------------------------------------------- lifespan
\* phoneme_extractor = PhonemeExtractor(device=device)
LoadExtractor ==
    /\ pcL = "load_extractor"
    /\ phoneme_extractor' = "PhonemeExtractor"
    /\ pcL' = "load_aligner"
    /\ UNCHANGED <<alignment_service, vowel_assessor, models_loaded, handlerVars,
                   otherThanSvc>>

\* alignment_service = AlignmentService(device=device)
LoadAligner ==
    /\ pcL = "load_aligner"
    /\ alignment_service' = "AlignmentService"
    /\ pcL' = "load_assessor"
    /\ UNCHANGED <<phoneme_extractor, vowel_assessor, models_loaded, handlerVars,
                   otherThanSvc>>

\* vowel_assessor = VowelAssessor()
LoadAssessor ==
    /\ pcL = "load_assessor"
    /\ vowel_assessor' = "VowelAssessor"
    /\ pcL' = "set_loaded"
    /\ UNCHANGED <<phoneme_extractor, alignment_service, models_loaded, handlerVars,
                   otherThanSvc>>

\* models_loaded = True, then the yield
SetLoaded ==
    /\ pcL = "set_loaded"
    /\ models_loaded' = TRUE
    /\ pcL' = "serving"
    /\ UNCHANGED <<phoneme_extractor, alignment_service, vowel_assessor, handlerVars,
                   otherThanSvc>>

\* A constructor raises: "except Exception: ... raise", nothing is undone.
LoadFails ==
    /\ pcL \in {"load_extractor", "load_aligner", "load_assessor"}
    /\ pcL' = "failed"
    /\ UNCHANGED <<phoneme_extractor, alignment_service, vowel_assessor, models_loaded,
                   handlerVars, otherThanSvc>>

\* Cleanup after the yield: phoneme_extractor = None
CleanupExtractor ==
    /\ pcL = "serving"
    /\ phoneme_extractor' = None
    /\ pcL' = "cleanup_aligner"
    /\ UNCHANGED <<alignment_service, vowel_assessor, models_loaded, handlerVars,
                   otherThanSvc>>

\* alignment_service = None
CleanupAligner ==
    /\ pcL = "cleanup_aligner"
    /\ alignment_service' = None
    /\ pcL' = "cleanup_assessor"
    /\ UNCHANGED <<phoneme_extractor, vowel_assessor, models_loaded, handlerVars,
                   otherThanSvc>>

\* vowel_assessor = None; models_loaded is not assigned
CleanupAssessor ==
    /\ pcL = "cleanup_assessor"
    /\ vowel_assessor' = None
    /\ pcL' = "stopped"
    /\ UNCHANGED <<phoneme_extractor, alignment_service, models_loaded, handlerVars,
                   otherThanSvc>>

\* ------------------------------------------------------------- handlers
\* A request arrives at one of the three endpoints.
Receive ==
    /\ pcR \in {"idle", "responded"}
    /\ \E r \in Requests : req' = r
    /\ pcR' = "guard"
    /\ phoneme_result' = None
    /\ alignment_result' = None
    /\ response' = None
    /\ used' = {}
    /\ UNCHANGED <<lifeVars, otherThanSvc>>

\* "if not models_loaded: raise HTTPException(status_code=503, ...)"
Guard ==
    /\ pcR = "guard"
    /\ IF ~models_loaded
       THEN /\ response' = HTTPError(503)
            /\ pcR' = "responded"
       ELSE /\ response' = response
            /\ pcR' = IF req.endpoint = "/align" THEN "align" ELSE "extract"
    /\ UNCHANGED <<req, phoneme_result, alignment_result, used, lifeVars, otherThanSvc>>

\* PhonemeResponse(phonemes=..., phoneme_list=..., word_alignments=result.get(...))
PhonemeResponse(result) ==
    [status |-> 200,
     body   |-> [phonemes        |-> result.phonemes,
                 phoneme_list    |-> result.phoneme_list,
                 word_alignments |-> GetOr(result, "word_alignments", None)]]

\* "await phoneme_extractor.extract_from_base64(request.base64_audio)" inside
\* the try: a None instance or an undecodable clip raises, and the except
\* answers 500.
Extract ==
    /\ pcR = "extract"
    /\ IF phoneme_extractor = None
       THEN /\ response' = HTTPError(500)
            /\ pcR' = "responded"
            /\ UNCHANGED <<phoneme_result, used>>
       ELSE /\ used' = used \cup {"phoneme_extractor"}
            /\ IF ~Clips[req.base64_audio].ok
               THEN /\ response' = HTTPError(500)
                    /\ pcR' = "responded"
                    /\ phoneme_result' = phoneme_result
               ELSE /\ phoneme_result' = ExtractFromBase64(req.base64_audio)
                    /\ IF req.endpoint = "/phonemes"
                       THEN /\ response' = PhonemeResponse(phoneme_result')
                            /\ pcR' = "responded"
                       ELSE /\ response' = response
                            /\ pcR' = "align"
    /\ UNCHANGED <<req, alignment_result, lifeVars, otherThanSvc>>

\* "await alignment_service.align_from_base64(base64_audio, expected_text)";
\* /align reaches it through align_from_bytes and returns the dict as JSON.
Align ==
    /\ pcR = "align"
    /\ IF alignment_service = None
       THEN /\ response' = HTTPError(500)
            /\ pcR' = "responded"
            /\ UNCHANGED <<alignment_result, used>>
       ELSE /\ used' = used \cup {"alignment_service"}
            /\ IF ~Clips[req.base64_audio].ok
               THEN /\ response' = HTTPError(500)
                    /\ pcR' = "responded"
                    /\ alignment_result' = alignment_result
               ELSE /\ alignment_result' = AlignFromBase64(req.base64_audio, req.expected_text)
                    /\ IF req.endpoint = "/align"
                       THEN /\ response' = [status |-> 200, body |-> alignment_result']
                            /\ pcR' = "responded"
                       ELSE /\ response' = response
                            /\ pcR' = "assess"
    /\ UNCHANGED <<req, phoneme_result, lifeVars, otherThanSvc>>

\* word_alignments=alignment_result.get("word_segments", [])
WordAlignmentsOf(result) == GetOr(result, "word_segments", <<>>)

\* AssessmentResponse(transcription=alignment_result.get("text", ""), ...)
AssessmentResponse(extracted, aligned, assessment) ==
    [status |-> 200,
     body   |-> [transcription |-> GetOr(aligned, "text", ""),
                 phonemes      |-> extracted.phonemes,
                 overall_score |-> assessment.overall_score,
                 vowel_score   |-> assessment.vowel_score,
                 vowel_errors  |-> assessment.vowel_errors,
                 focus_areas   |-> assessment.focus_areas,
                 word_details  |-> assessment.word_details]]

\* "assessment = vowel_assessor.assess(...)" and the response
AssessRequest ==
    /\ pcR = "assess"
    /\ IF vowel_assessor = None
       THEN /\ response' = HTTPError(500)
            /\ used' = used
       ELSE /\ response' = AssessmentResponse(phoneme_result, alignment_result,
                            Assess(req.expected_text, req.expected_phonemes,
                                   phoneme_result.phoneme_list,
                                   WordAlignmentsOf(alignment_result),
                                   req.focus_vowels))
            /\ used' = used \cup {"vowel_assessor"}
    /\ pcR' = "responded"
    /\ UNCHANGED <<req, phoneme_result, alignment_result, lifeVars, otherThanSvc>>

NextService ==
    \/ LoadExtractor
    \/ LoadAligner
    \/ LoadAssessor
    \/ SetLoaded
    \/ LoadFails
    \/ CleanupExtractor
    \/ CleanupAligner
    \/ CleanupAssessor
    \/ Receive
    \/ Guard
    \/ Extract
    \/ Align
    \/ AssessRequest

SpecService == InitService /\ [][NextService]_vars

C30_LoadedImpliesInstances ==
    /\ (pcR = "responded" /\ ~models_loaded) =>
           (response.status = 503 /\ used = {})
    /\ used # {} => models_loaded
    /\ models_loaded =>
        /\ phoneme_extractor # None
        /\ alignment_service # None
        /\ vowel_assessor # None

\* ======================================================================
\* WebSocket /stream: websocket_stream
\* ======================================================================
\* The number of client messages of one connection that are explored.
MaxMessages == 5

\* The JSON messages a client sends.  An audio chunk is a string, or JSON
\* null (None); a start message carries the text, possibly empty.
Messages ==
    [type : {"start"}, expected_text : {"", "cat"}, data : {""}]
    \cup [type : {"audio"}, expected_text : {""}, data : {"A", "B", None}]
    \cup [type : {"end", "ping"}, expected_text : {""}, data : {""}]

\* What "await phoneme_client.assess(...)" does: it raises (a status other
\* than 200, a timeout), or returns the service's JSON with its word_details.
AssessOutcomes ==
    { [ok |-> FALSE, word_details |-> <<>>],
      [ok |-> TRUE,  word_details |-> <<>>],
      [ok |-> TRUE,  word_details |-> << [word |-> "the"], [word |-> "cat"] >>] }

\* "".join(audio_buffer)
RECURSIVE JoinChunks(_)
JoinChunks(chunks) ==
    IF chunks = <<>> THEN "" ELSE Head(chunks) \o JoinChunks(Tail(chunks))

\* str.join raises TypeError on an item that is not a string.
JoinRaises(chunks) == \E k \in DOMAIN chunks : chunks[k] = None

BufferAfterStartKept(buffer) == buffer

\* "audio_buffer = []" of the start branch
BufferAfterStart(buffer) == <<>>

otherThanStream == <<coreVars, concVars, svcVars>>

InitStream ==
    /\ ws_expected_text = ""
    /\ audio_buffer = <<>>
    /\ full_audio = ""
    /\ ws_assessment = None
    /\ word_i = 0
    /\ pcW = "receive"
    /\ connected = TRUE
    /\ received = <<>>
    /\ sent = <<>>
    /\ submitted = <<>>
    /\ AlignIdle /\ CollapseIdle /\ ExtractIdle /\ ScoreIdle /\ FocusIdle /\ AssessIdle
    /\ ConcIdle /\ SvcIdle

\* await websocket.send_json({"type": type, ...}), answering the message
\* being handled
SendJson(type) == sent' = Append(sent, [type |-> type, for |-> Len(received)])

\* The client closes the socket; the handler's next receive or send raises.
ClientDisconnect ==
    /\ pcW \notin {"closed"}
    /\ connected
    /\ connected' = FALSE
    /\ UNCHANGED <<ws_expected_text, audio_buffer, full_audio, ws_assessment, word_i, pcW,
                   received, sent, submitted, otherThanStream>>

\* "data = await websocket.receive_json()" raises WebSocketDisconnect.
ReceiveDisconnected ==
    /\ pcW = "receive"
    /\ ~connected
    /\ pcW' = "closed"
    /\ UNCHANGED <<ws_expected_text, audio_buffer, full_audio, ws_assessment, word_i,
                   connected, received, sent, submitted, otherThanStream>>

\* A "start" message: the text is stored, the buffer emptied; "ready" is next.
ReceiveStart ==
    /\ pcW = "receive" /\ connected /\ Len(received) < MaxMessages
    /\ \E data \in Messages :
        /\ data.type = "start"
        /\ received' = Append(received, [type |-> "start", data |-> "", text_set |-> FALSE])
        /\ ws_expected_text' = data.expected_text
    /\ audio_buffer' = BufferAfterStart(audio_buffer)
    /\ pcW' = "send_ready"
    /\ UNCHANGED <<full_audio, ws_assessment, word_i, connected, sent, submitted,
                   otherThanStream>>

\* An "audio" message: audio_buffer.append(data.get("data", ""))
ReceiveAudio ==
    /\ pcW = "receive" /\ connected /\ Len(received) < MaxMessages
    /\ \E data \in Messages :
        /\ data.type = "audio"
        /\ received' = Append(received, [type |-> "audio", data |-> data.data,
                                         text_set |-> FALSE])
        /\ audio_buffer' = Append(audio_buffer, data.data)
    /\ UNCHANGED <<ws_expected_text, full_audio, ws_assessment, word_i, pcW, connected,
                   sent, submitted, otherThanStream>>

\* An "end" message: without expected text the error is next; otherwise the
\* chunks are joined, which raises on a chunk that is not a string (the
\* outer "except Exception" then ends the handler), and "processing" is next.
ReceiveEnd ==
    /\ pcW = "receive" /\ connected /\ Len(received) < MaxMessages
    /\ received' = Append(received, [type |-> "end", data |-> "",
                                     text_set |-> ws_expected_text # ""])
    /\ IF ws_expected_text = ""
       THEN /\ pcW' = "send_no_text"
            /\ full_audio' = full_audio
       ELSE IF JoinRaises(audio_buffer)
       THEN /\ pcW' = "closed"
            /\ full_audio' = full_audio
       ELSE /\ pcW' = "send_processing"
            /\ full_audio' = JoinChunks(audio_buffer)
    /\ UNCHANGED <<ws_expected_text, audio_buffer, ws_assessment, word_i, connected,
                   sent, submitted, otherThanStream>>

\* A "ping" message: "pong" is next.
ReceivePing ==
    /\ pcW = "receive" /\ connected /\ Len(received) < MaxMessages
    /\ received' = Append(received, [type |-> "ping", data |-> "", text_set |-> FALSE])
    /\ pcW' = "send_pong"
    /\ UNCHANGED <<ws_expected_text, audio_buffer, full_audio, ws_assessment, word_i,
                   connected, sent, submitted, otherThanStream>>

\* The sends of the start, ping and text-less end branches; the loop
\* continues ("continue" leaves the buffer as it is).
SendReply ==
    /\ pcW \in {"send_ready", "send_pong", "send_no_text"}
    /\ IF connected
       THEN /\ SendJson(CASE pcW = "send_ready" -> "ready"
                          [] pcW = "send_pong" -> "pong"
                          [] OTHER -> "error")
            /\ pcW' = "receive"
       ELSE /\ sent' = sent
            /\ pcW' = "closed"
    /\ UNCHANGED <<ws_expected_text, audio_buffer, full_audio, ws_assessment, word_i,
                   connected, received, submitted, otherThanStream>>

\* send_json({"type": "processing", ...}), outside the inner try
SendProcessing ==
    /\ pcW = "send_processing"
    /\ IF connected
       THEN /\ SendJson("processing")
            /\ pcW' = "assess"
       ELSE /\ sent' = sent
            /\ pcW' = "closed"
    /\ UNCHANGED <<ws_expected_text, audio_buffer, full_audio, ws_assessment, word_i,
                   connected, received, submitted, otherThanStream>>

\* assessment = await phoneme_client.assess(base64_audio=full_audio,
\*                                          expected_text=expected_text)
StreamAssess ==
    /\ pcW = "assess"
    /\ submitted' = Append(submitted, [for           |-> Len(received),
                                       base64_audio  |-> full_audio,
                                       expected_text |-> ws_expected_text])
    /\ \E outcome \in AssessOutcomes :
        IF outcome.ok
        THEN /\ ws_assessment' = outcome
             /\ word_i' = 0
             /\ pcW' = "send_results"
        ELSE /\ UNCHANGED <<ws_assessment, word_i>>
             /\ pcW' = "send_error"
    /\ UNCHANGED <<ws_expected_text, audio_buffer, full_audio, connected, received, sent,
                   otherThanStream>>

\* One "word_result" of the loop over word_details; a failing send is
\* caught by the inner "except Exception".
SendWordResult ==
    /\ pcW = "send_results"
    /\ word_i < Len(ws_assessment.word_details)
    /\ IF connected
       THEN /\ SendJson("word_result")
            /\ word_i' = word_i + 1
            /\ pcW' = pcW
       ELSE /\ sent' = sent
            /\ word_i' = word_i
            /\ pcW' = "send_error"
    /\ UNCHANGED <<ws_expected_text, audio_buffer, full_audio, ws_assessment, connected,
                   received, submitted, otherThanStream>>

\* "complete" after the loop, then "audio_buffer = []" and the next receive.
SendComplete ==
    /\ pcW = "send_results"
    /\ word_i = Len(ws_assessment.word_details)
    /\ IF connected
       THEN /\ SendJson("complete")
            /\ audio_buffer' = <<>>
            /\ pcW' = "receive"
       ELSE /\ sent' = sent
            /\ audio_buffer' = audio_buffer
            /\ pcW' = "send_error"
    /\ UNCHANGED <<ws_expected_text, full_audio, ws_assessment, word_i, connected,
                   received, submitted, otherThanStream>>

\* The inner except: "error", then "audio_buffer = []" and the next receive;
\* a failing send leaves through the outer except.
SendError ==
    /\ pcW = "send_error"
    /\ IF connected
       THEN /\ SendJson("error")
            /\ audio_buffer' = <<>>
            /\ pcW' = "receive"
       ELSE /\ sent' = sent
            /\ audio_buffer' = audio_buffer
            /\ pcW' = "closed"
    /\ UNCHANGED <<ws_expected_text, full_audio, ws_assessment, word_i, connected,
                   received, submitted, otherThanStream>>

NextStream ==
    \/ ClientDisconnect
    \/ ReceiveDisconnected
    \/ ReceiveStart
    \/ ReceiveAudio
    \/ ReceiveEnd
    \/ ReceivePing
    \/ SendReply
    \/ SendProcessing
    \/ StreamAssess
    \/ SendWordResult
    \/ SendComplete
    \/ SendError

SpecStream == InitStream /\ [][NextStream]_vars

\* The types of the messages sent in answer to received message j, in order.
Replies(j) ==
    LET Answers(m) == m.for = j
        answers    == SelectSeq(sent, Answers)
    IN [k \in DOMAIN answers |-> answers[k].type]

\* The in-order concatenation of the data of the audio messages i..j-1.
RECURSIVE AudioBetween(_, _)
AudioBetween(i, j) ==
    IF i >= j THEN ""
    ELSE (IF received[i].type = "audio" THEN received[i].data ELSE "")
             \o AudioBetween(i + 1, j)

\* The latest of the most recent start and the most recent end for which an
\* assessment was requested, before message j (0 when there is none).
LastBoundary(j) ==
    LET marks == {0} \cup {i \in 1..(j - 1) : received[i].type = "start"}
                     \cup {submitted[k].for : k \in {n \in DOMAIN submitted :
                                                       submitted[n].for < j}}
    IN CHOOSE b \in marks : \A c \in marks : c <= b

\* The handler is through with message j.
Handled(j) == j < Len(received) \/ pcW = "receive"

\* C28: the audio submitted on an 'end' with expected text set is the
\* in-order concatenation of the data of the audio messages received since
\* the latest of the most recent 'start' and the most recent processed
\* 'end' (no chunk is assessed twice or carried across a 'start'); an 'end'
\* with no expected text is answered by 'error' and requests no assessment.
C28_SubmittedAudio ==
    /\ \A k \in DOMAIN submitted :
        LET j == submitted[k].for
        IN /\ received[j].type = "end"
           /\ received[j].text_set
           /\ submitted[k].base64_audio = AudioBetween(LastBoundary(j) + 1, j)
           /\ \A n \in DOMAIN submitted : n < k => submitted[n].for < j
    /\ \A j \in DOMAIN received :
        (received[j].type = "end" /\ ~received[j].text_set) =>
            /\ \A k \in DOMAIN submitted : submitted[k].for # j
            /\ Replies(j) \in { <<>>, <<"error">> }
            /\ Handled(j) => Replies(j) = <<"error">>

\* A chunk sent before the start is dropped, the two after it are submitted
\* in order, and a second 'end' without a new start would start from empty.
C28_Witness ==
    /\ Len(received) = 5
    /\ received[1].type = "audio" /\ received[1].data = "A"
    /\ received[2].type = "start"
    /\ received[3].type = "audio" /\ received[3].data = "B"
    /\ received[4].type = "audio" /\ received[4].data = "A"
    /\ received[5].type = "end"
    /\ Len(submitted) = 1
    /\ submitted[1].base64_audio = "BA"
    /\ pcW = "receive"
    /\ audio_buffer = <<>>

\* C29: for every 'end' received with expected text set the server sends
\* 'processing' first and then ends that assessment with exactly one of
\* 'complete' and 'error'; the 'word_result' messages come before the
\* 'complete', no 'complete' follows an 'error', and after an assessment
\* error the connection keeps accepting messages.  (A client that has
\* closed the socket cannot be answered: the terminating message is asked
\* for only while the client is connected.)
C29_ProcessingThenOneOutcome ==
    \A j \in DOMAIN received :
        (received[j].type = "end" /\ received[j].text_set) =>
            LET replies == Replies(j)
            IN /\ replies # <<>> => replies[1] = "processing"
               /\ \A k \in DOMAIN replies :
                     /\ k > 1 => replies[k] \in {"word_result", "complete", "error"}
                     /\ k < Len(replies) => replies[k] \notin {"complete", "error"}
               /\ ((j < Len(received) \/ pcW \in {"receive", "closed"}) /\ connected) =>
                     /\ Len(replies) >= 2
                     /\ replies[Len(replies)] \in {"complete", "error"}
               /\ (replies # <<>> /\ replies[Len(replies)] = "error" /\ connected) =>
                     pcW # "closed"

====
